---- MODULE Spec2Model ----
(***************************************************************************)
(* ConwayPad server: the chat endpoint (deploy-intent branch and the x402  *)
(* pay-per-request inference relay with its fallback knowledge base), the  *)
(* deploy endpoint and the deployment dispatch, and the storage they use.  *)
(* Texts are TLA+ strings; the regular expressions of the deploy-intent    *)
(* parser are evaluated position by position, as the engine matches them.  *)
(***************************************************************************)
EXTENDS Integers, Sequences, FiniteSets, Bags, TLC

\* ------------------------------------------------------------------------
\* Text primitives (String.prototype and RegExp character classes)
\* ------------------------------------------------------------------------

\* value of a property, capture or variable that was never set
Undefined == "<undefined>"

\* JavaScript truthiness of a string-or-undefined value
Truthy(v) == v # Undefined /\ v # ""

SetMax(S) == CHOOSE x \in S : \A y \in S : y <= x
SetMin(S) == CHOOSE x \in S : \A y \in S : x <= y

Ch(s, i) == IF i >= 1 /\ i <= Len(s) THEN SubSeq(s, i, i) ELSE ""

CharsOf(s) == {SubSeq(s, i, i) : i \in 1..Len(s)}

UpperChars == "ABCDEFGHIJKLMNOPQRSTUVWXYZ"
LowerChars == "abcdefghijklmnopqrstuvwxyz"
DigitChars == "0123456789"

UpperSet == CharsOf(UpperChars)
LetterSet == CharsOf(UpperChars \o LowerChars)
AlnumSet == CharsOf(UpperChars \o LowerChars \o DigitChars)
\* \w
WordSet == AlnumSet \cup {"_"}
\* \s
SpaceSet == {" ", "\n", "\t", "\r"}
\* [:\s]
SepSet == SpaceSet \cup {":"}
\* [a-fA-F0-9]
HexSet == CharsOf("abcdefABCDEF" \o DigitChars)
\* [a-f0-9] under the i flag is the same class
LineEndSet == {"\n", "\r"}

LowerChar(c) ==
  IF c \in UpperSet
  THEN Ch(LowerChars, CHOOSE i \in 1..Len(UpperChars) : Ch(UpperChars, i) = c)
  ELSE c

UpperChar(c) ==
  IF c \in CharsOf(LowerChars)
  THEN Ch(UpperChars, CHOOSE i \in 1..Len(LowerChars) : Ch(LowerChars, i) = c)
  ELSE c

\* String.prototype.toLowerCase, character by character (the text is split in
\* halves to keep the evaluation shallow)
RECURSIVE toLowerCase(_)
toLowerCase(s) ==
  IF Len(s) <= 1 THEN LowerChar(s)
  ELSE toLowerCase(SubSeq(s, 1, Len(s) \div 2))
         \o toLowerCase(SubSeq(s, Len(s) \div 2 + 1, Len(s)))

\* String.prototype.toUpperCase
RECURSIVE toUpperCase(_)
toUpperCase(s) ==
  IF Len(s) <= 1 THEN UpperChar(s)
  ELSE toUpperCase(SubSeq(s, 1, Len(s) \div 2))
         \o toUpperCase(SubSeq(s, Len(s) \div 2 + 1, Len(s)))

\* String.prototype.includes
Includes(s, w) ==
  \E i \in 1..(Len(s) - Len(w) + 1) : SubSeq(s, i, i + Len(w) - 1) = w

\* String.prototype.startsWith
StartsWith(s, w) == Len(s) >= Len(w) /\ SubSeq(s, 1, Len(w)) = w

\* String.prototype.trim
Trim(s) ==
  LET inked == {i \in 1..Len(s) : Ch(s, i) \notin SpaceSet}
  IN IF inked = {} THEN "" ELSE SubSeq(s, SetMin(inked), SetMax(inked))

\* .replace(/\s+/g, " "): every run of white space becomes one space; the
\* characters lo..hi of s after the replacement
RECURSIVE CollapseRange(_, _, _)
CollapseRange(s, lo, hi) ==
  IF lo > hi THEN ""
  ELSE IF lo = hi
  THEN (IF Ch(s, lo) \notin SpaceSet THEN Ch(s, lo)
        ELSE IF Ch(s, lo - 1) \in SpaceSet THEN "" ELSE " ")
  ELSE CollapseRange(s, lo, (lo + hi) \div 2) \o CollapseRange(s, (lo + hi) \div 2 + 1, hi)

CollapseSpaces(s) == CollapseRange(s, 1, Len(s))

\* \b between positions i-1 and i
WordBoundary(s, i) == (Ch(s, i - 1) \in WordSet) # (Ch(s, i) \in WordSet)

\* a literal at position i, exactly and under the i flag
LitAt(s, i, lit) == i >= 1 /\ i + Len(lit) - 1 <= Len(s) /\ SubSeq(s, i, i + Len(lit) - 1) = lit
LitAtCI(s, i, lit) ==
  i >= 1 /\ i + Len(lit) - 1 <= Len(s) /\ toLowerCase(SubSeq(s, i, i + Len(lit) - 1)) = lit

\* length of the longest run of characters of class S that starts at i
RunLen(s, i, S) ==
  IF i > Len(s) THEN 0
  ELSE SetMax({n \in 0..(Len(s) + 1 - i) : \A k \in i..(i + n - 1) : Ch(s, k) \in S})

\* length of the longest run of characters outside class S that starts at i
RunLenNot(s, i, S) ==
  IF i > Len(s) THEN 0
  ELSE SetMax({n \in 0..(Len(s) + 1 - i) : \A k \in i..(i + n - 1) : Ch(s, k) \notin S})

AtEnd(s, i) == i = Len(s) + 1

\* ------------------------------------------------------------------------
\* parseDeployMessage: the regular expressions, matched as the engine does
\* (leftmost start; greedy quantifiers longest first, lazy ones shortest
\* first; the first alternative that leads to a match wins)
\* ------------------------------------------------------------------------

\* the word list of the name pattern's lookahead; "x\s" is x and a white space
NameStopAt(s, j) ==
  \/ \E w \in {"symbol", "ticker", "twitter", "website", "wallet", "image", "description"} :
        LitAtCI(s, j, w)
  \/ (LitAtCI(s, j, "x") /\ Ch(s, j + 1) \in SpaceSet)

\* (?=\s+(?:symbol|ticker|x\s|twitter|website|wallet|image|description)|$)
NameAhead(s, q) ==
  \/ \E t \in 1..RunLen(s, q, SpaceSet) : NameStopAt(s, q + t)
  \/ AtEnd(s, q)

\* /\bname[:\s]+([^\n,;]+?)(?=...)/i at start i: the separator runs and capture
\* lengths that lead to a match
NameAt(s, i) == WordBoundary(s, i) /\ LitAtCI(s, i, "name")

NameSeps(s, i) == 1..RunLen(s, i + 4, SepSet)

NameLens(s, i, k) ==
  {m \in 1..RunLenNot(s, i + 4 + k, {"\n", ",", ";"}) : NameAhead(s, i + 4 + k + m)}

NameMatch(s) ==
  LET starts == {i \in 1..Len(s) : NameAt(s, i) /\ \E k \in NameSeps(s, i) : NameLens(s, i, k) # {}}
  IN IF starts = {} THEN Undefined
     ELSE LET i == SetMin(starts)
              k == SetMax({kk \in NameSeps(s, i) : NameLens(s, i, kk) # {}})
              m == SetMin(NameLens(s, i, k))
          IN SubSeq(s, i + 4 + k, i + 4 + k + m - 1)

\* (?=\s+(?:symbol|ticker|$))
TokenNameAhead(s, q) ==
  \E t \in 1..RunLen(s, q, SpaceSet) :
     LitAtCI(s, q + t, "symbol") \/ LitAtCI(s, q + t, "ticker") \/ AtEnd(s, q + t)

\* /\btoken\s+(?:name[:\s]+)?([A-Za-z][A-Za-z0-9\s]{1,30}?)(?=...)/i at start i:
\* white-space run k, optional group of length g (0: absent), m characters
\* after the first of the capture
TokenAt(s, i) == WordBoundary(s, i) /\ LitAtCI(s, i, "token")

TokenSpaces(s, i) == 1..RunLen(s, i + 5, SpaceSet)

TokenGroups(s, i, k) ==
  {0} \cup (IF LitAtCI(s, i + 5 + k, "name")
            THEN {4 + j : j \in 1..RunLen(s, i + 9 + k, SepSet)}
            ELSE {})

TokenLens(s, i, k, g) ==
  IF Ch(s, i + 5 + k + g) \in LetterSet
  THEN {m \in 1..30 : /\ m <= RunLen(s, i + 6 + k + g, AlnumSet \cup SpaceSet)
                      /\ TokenNameAhead(s, i + 6 + k + g + m)}
  ELSE {}

TokenNameMatch(s) ==
  LET Ok(i, k) == \E g \in TokenGroups(s, i, k) : TokenLens(s, i, k, g) # {}
      starts == {i \in 1..Len(s) : TokenAt(s, i) /\ \E k \in TokenSpaces(s, i) : Ok(i, k)}
  IN IF starts = {} THEN Undefined
     ELSE LET i == SetMin(starts)
              k == SetMax({kk \in TokenSpaces(s, i) : Ok(i, kk)})
              g == SetMax({gg \in TokenGroups(s, i, k) : TokenLens(s, i, k, gg) # {}})
              m == SetMin(TokenLens(s, i, k, g))
          IN SubSeq(s, i + 5 + k + g, i + 5 + k + g + m)

\* /\b(?:symbol|ticker)[:\s]+([A-Za-z]{2,10})/i at start i: the capture or Undefined
SymbolKeyTry(s, i) ==
  LET p == i + 6 + RunLen(s, i + 6, SepSet)
      len == RunLen(s, p, LetterSet)
  IN IF /\ WordBoundary(s, i)
        /\ (LitAtCI(s, i, "symbol") \/ LitAtCI(s, i, "ticker"))
        /\ RunLen(s, i + 6, SepSet) >= 1
        /\ len >= 2
     THEN SubSeq(s, p, p + (IF len > 10 THEN 10 ELSE len) - 1)
     ELSE Undefined

SymbolKeyMatch(s) ==
  LET starts == {i \in 1..Len(s) : SymbolKeyTry(s, i) # Undefined}
  IN IF starts = {} THEN Undefined ELSE SymbolKeyTry(s, SetMin(starts))

\* (?!.*\b(?:symbol|ticker)\b) fails when the rest of the line holds the word
SymbolWordAhead(s, q) ==
  \E j \in q..Len(s) :
     /\ j - q <= RunLenNot(s, q, LineEndSet)
     /\ WordBoundary(s, j)
     /\ (LitAt(s, j, "symbol") \/ LitAt(s, j, "ticker"))
     /\ WordBoundary(s, j + 6)

\* /\b([A-Z]{2,10})\b(?=\s|$)(?!.*\b(?:symbol|ticker)\b)/ at start i: the capture
\* lengths that lead to a match
SymbolCapsLens(s, i) ==
  IF WordBoundary(s, i)
  THEN {m \in 2..10 : /\ m <= RunLen(s, i, UpperSet)
                      /\ WordBoundary(s, i + m)
                      /\ (Ch(s, i + m) \in SpaceSet \/ AtEnd(s, i + m))
                      /\ ~SymbolWordAhead(s, i + m)}
  ELSE {}

SymbolCapsMatch(s) ==
  LET starts == {i \in 1..Len(s) : SymbolCapsLens(s, i) # {}}
  IN IF starts = {} THEN Undefined
     ELSE LET i == SetMin(starts)
          IN SubSeq(s, i, i + SetMax(SymbolCapsLens(s, i)) - 1)

\* seeded fault: the class of the address is [a-f0-9]
WalletAtLowerHex(s, i) ==
  /\ WordBoundary(s, i)
  /\ LitAt(s, i, "0x")
  /\ RunLen(s, i + 2, CharsOf("abcdef" \o DigitChars)) >= 40
  /\ WordBoundary(s, i + 42)

\* /\b(0x[a-fA-F0-9]{40})\b/
WalletAt(s, i) ==
  /\ WordBoundary(s, i)
  /\ LitAt(s, i, "0x")
  /\ RunLen(s, i + 2, HexSet) >= 40
  /\ WordBoundary(s, i + 42)

WalletMatch(s) ==
  LET starts == {i \in 1..Len(s) : WalletAt(s, i)}
  IN IF starts = {} THEN Undefined
     ELSE SubSeq(s, SetMin(starts), SetMin(starts) + 41)

\* /\bKEY[:\s]+(\S+)/i at start i: the capture or Undefined
KeyWordAt(s, i, key) ==
  LET p0 == i + Len(key)
      seps == {k \in 1..RunLen(s, p0, SepSet) : Ch(s, p0 + k) # "" /\ Ch(s, p0 + k) \notin SpaceSet}
  IN IF WordBoundary(s, i) /\ LitAtCI(s, i, key) /\ seps # {}
     THEN LET p == p0 + SetMax(seps)
          IN SubSeq(s, p, p + RunLenNot(s, p, SpaceSet) - 1)
     ELSE Undefined

KeyWordMatch(s, key) ==
  LET starts == {i \in 1..Len(s) : KeyWordAt(s, i, key) # Undefined}
  IN IF starts = {} THEN Undefined ELSE KeyWordAt(s, SetMin(starts), key)

\* /\bwebsite[:\s]+(\S+)/i || /\bweb[:\s]+(\S+)/i
WebsiteMatch(s) ==
  IF KeyWordMatch(s, "website") # Undefined THEN KeyWordMatch(s, "website")
  ELSE KeyWordMatch(s, "web")

\* /\b(?:twitter|x)[:\s]+(https?:\/\/[^\s]+)/i at start i with keyword key
TwitterUrlAt(s, i, key) ==
  LET p0 == i + Len(key)
      Url(p) == \/ (LitAtCI(s, p, "http://") /\ RunLenNot(s, p + 7, SpaceSet) >= 1)
                \/ (LitAtCI(s, p, "https://") /\ RunLenNot(s, p + 8, SpaceSet) >= 1)
      seps == {k \in 1..RunLen(s, p0, SepSet) : Url(p0 + k)}
  IN IF WordBoundary(s, i) /\ LitAtCI(s, i, key) /\ seps # {}
     THEN LET p == p0 + SetMax(seps)
          IN SubSeq(s, p, p + RunLenNot(s, p, SpaceSet) - 1)
     ELSE Undefined

\* /\b(?:twitter|x)[:\s]+(@?[^\s\n,;]+)/i at start i with keyword key
TwitterHandleAt(s, i, key) ==
  LET p0 == i + Len(key)
      Stop == SpaceSet \cup {",", ";"}
      seps == {k \in 1..RunLen(s, p0, SepSet) : RunLenNot(s, p0 + k, Stop) >= 1}
  IN IF WordBoundary(s, i) /\ LitAtCI(s, i, key) /\ seps # {}
     THEN LET p == p0 + SetMax(seps)
          IN SubSeq(s, p, p + RunLenNot(s, p, Stop) - 1)
     ELSE Undefined

\* the alternation (?:twitter|x) tries twitter first at every start
TwitterUrlTry(s, i) ==
  IF TwitterUrlAt(s, i, "twitter") # Undefined THEN TwitterUrlAt(s, i, "twitter")
  ELSE TwitterUrlAt(s, i, "x")

TwitterHandleTry(s, i) ==
  IF TwitterHandleAt(s, i, "twitter") # Undefined THEN TwitterHandleAt(s, i, "twitter")
  ELSE TwitterHandleAt(s, i, "x")

TwitterMatch(s) ==
  LET urls == {i \in 1..Len(s) : TwitterUrlTry(s, i) # Undefined}
      handles == {i \in 1..Len(s) : TwitterHandleTry(s, i) # Undefined}
  IN IF urls # {} THEN TwitterUrlTry(s, SetMin(urls))
     ELSE IF handles # {} THEN TwitterHandleTry(s, SetMin(handles))
     ELSE Undefined

\* /\b(?:description|desc)[:\s]+([^\n]+)/i at start i with keyword key
DescAt(s, i, key) ==
  LET p0 == i + Len(key)
      seps == {k \in 1..RunLen(s, p0, SepSet) : RunLenNot(s, p0 + k, {"\n"}) >= 1}
  IN IF WordBoundary(s, i) /\ LitAtCI(s, i, key) /\ seps # {}
     THEN LET p == p0 + SetMax(seps)
          IN SubSeq(s, p, p + RunLenNot(s, p, {"\n"}) - 1)
     ELSE Undefined

DescTry(s, i) ==
  IF DescAt(s, i, "description") # Undefined THEN DescAt(s, i, "description")
  ELSE DescAt(s, i, "desc")

DescMatch(s) ==
  LET starts == {i \in 1..Len(s) : DescTry(s, i) # Undefined}
  IN IF starts = {} THEN Undefined ELSE DescTry(s, SetMin(starts))

\* /\bipfs:\/\/\S+/i: the whole match
IpfsMatch(s) ==
  LET starts == {i \in 1..Len(s) : /\ WordBoundary(s, i)
                                   /\ LitAtCI(s, i, "ipfs://")
                                   /\ RunLenNot(s, i + 7, SpaceSet) >= 1}
  IN IF starts = {} THEN Undefined
     ELSE LET i == SetMin(starts) IN SubSeq(s, i, i + 6 + RunLenNot(s, i + 7, SpaceSet))

\* the parameter set of a deploy request; Undefined marks a field never set
DeployParams(name, symbol, wallet, websiteUrl, twitterUrl, description, imageUrl) ==
  [name |-> name, symbol |-> symbol, wallet |-> wallet, websiteUrl |-> websiteUrl,
   twitterUrl |-> twitterUrl, description |-> description, imageUrl |-> imageUrl]

\* parseDeployMessage returned null
NullParams == [null |-> TRUE]

IsDeployKeyword(lower) ==
  Includes(lower, "deploy") \/ Includes(lower, "launch") \/ Includes(lower, "create token")

parseName(text) ==
  LET m == IF NameMatch(text) # Undefined THEN NameMatch(text) ELSE TokenNameMatch(text)
  IN IF m = Undefined THEN Undefined ELSE CollapseSpaces(Trim(m))

parseSymbol(text) ==
  LET m == IF SymbolKeyMatch(text) # Undefined THEN SymbolKeyMatch(text) ELSE SymbolCapsMatch(text)
  IN IF m = Undefined THEN Undefined ELSE toUpperCase(Trim(m))

parseWebsite(text) ==
  LET m == WebsiteMatch(text)
      url == Trim(m)
  IN IF m = Undefined THEN Undefined
     ELSE IF StartsWith(url, "http") THEN url ELSE "https://" \o url

parseTwitter(text) ==
  LET m == TwitterMatch(text)
      url == Trim(m)
  IN IF m = Undefined THEN Undefined
     ELSE IF StartsWith(url, "http") THEN url
     ELSE IF StartsWith(url, "@") THEN "https://x.com/" \o SubSeq(url, 2, Len(url))
     ELSE "https://x.com/" \o url

parseDescription(text) ==
  IF DescMatch(text) = Undefined THEN Undefined ELSE Trim(DescMatch(text))

parseImage(text) ==
  IF KeyWordMatch(text, "image") # Undefined THEN KeyWordMatch(text, "image")
  ELSE IpfsMatch(text)

\* seeded fault: the parameters are returned whatever was found
parseDeployMessageUnchecked(text) ==
  IF ~IsDeployKeyword(toLowerCase(text)) THEN NullParams
  ELSE DeployParams(parseName(text), parseSymbol(text), WalletMatch(text),
                    parseWebsite(text), parseTwitter(text), parseDescription(text),
                    parseImage(text))

parseDeployMessage(text) ==
  IF ~IsDeployKeyword(toLowerCase(text)) THEN NullParams
  ELSE LET name == parseName(text)
           symbol == parseSymbol(text)
       IN IF Truthy(name) \/ Truthy(symbol)
          THEN DeployParams(name, symbol, WalletMatch(text), parseWebsite(text),
                            parseTwitter(text), parseDescription(text), parseImage(text))
          ELSE NullParams

\* ------------------------------------------------------------------------
\* generateFallbackResponse: the built-in knowledge base
\* ------------------------------------------------------------------------

\* the if-chain of generateFallbackResponse in source order: the has(...) word
\* list of every topic; the entry without words is the wallet-address pattern
FallbackTopics == <<
  [topic |-> "greeting", words |-> <<"hello", "hi ", "hey", "how are you", "greetings">>],
  [topic |-> "deploy", words |-> <<"deploy", "launch", "create token", "mint token">>],
  [topic |-> "fees", words |-> <<"fee", "split", "earn", "reward">>],
  [topic |-> "conwaypad", words |-> <<"conwaypad", "how does", "how it work", "what is conway", "platform">>],
  [topic |-> "clanker", words |-> <<"clanker">>],
  [topic |-> "uniswap", words |-> <<"uniswap", "liquidity", "pool", "amm", "swap">>],
  [topic |-> "dexscreener", words |-> <<"dexscreener", "dex screener", "chart">>],
  [topic |-> "stats", words |-> <<"stat", "total token", "how many", "dashboard">>],
  [topic |-> "bitcoin", words |-> <<"bitcoin", "btc", "satoshi nakamoto", "halving">>],
  [topic |-> "ethereum", words |-> <<"ethereum", "ether ", " eth ", "vitalik", "the merge", "evm">>],
  [topic |-> "solana", words |-> <<"solana", " sol ">>],
  [topic |-> "bnb", words |-> <<"bnb", "binance smart chain", "bsc", "pancakeswap">>],
  [topic |-> "polygon", words |-> <<"polygon", "matic">>],
  [topic |-> "base", words |-> <<"base ", "base blockchain", "chain id 8453", "layer 2 base", "coinbase l2">>],
  [topic |-> "layer2", words |-> <<"layer 2", "l2", "optimism", "arbitrum", "rollup", "zksync">>],
  [topic |-> "defi", words |-> <<"defi", "decentralized finance">>],
  [topic |-> "nft", words |-> <<"nft", "non-fungible", "non fungible", "opensea", "digital art">>],
  [topic |-> "wallet", words |-> <<"wallet", "metamask", "coinbase wallet", "rainbow">>],
  [topic |-> "private_key", words |-> <<"private key", "seed phrase", "mnemonic", "recovery phrase">>],
  [topic |-> "gas", words |-> <<"gas", "gas fee", "gwei", "transaction fee">>],
  [topic |-> "stablecoin", words |-> <<"stablecoin", "usdc", "usdt", "dai", "stable coin">>],
  [topic |-> "staking", words |-> <<"staking", "stake", "validator", "proof of stake">>],
  [topic |-> "memecoin", words |-> <<"memecoin", "meme coin", "doge", "shib", "pepe", "bonk", "wif">>],
  [topic |-> "smart_contract", words |-> <<"smart contract", "solidity">>],
  [topic |-> "erc20", words |-> <<"erc-20", "erc20", "fungible token">>],
  [topic |-> "web3", words |-> <<"web3", "web 3", "blockchain technology">>],
  [topic |-> "dao", words |-> <<"dao", "decentralized autonomous", "governance", "voting">>],
  [topic |-> "yield", words |-> <<"yield farm", "yield farming", "provide liquidity", "lp token", "liquidity provider">>],
  [topic |-> "airdrop", words |-> <<"airdrop", "air drop", "free token">>],
  [topic |-> "market_cap", words |-> <<"market cap", "marketcap", "mcap", "fully diluted">>],
  [topic |-> "volume", words |-> <<"volume", "trading volume", "volume 24h">>],
  [topic |-> "dyor", words |-> <<"dyor", "do your own research", "research">>],
  [topic |-> "rug_pull", words |-> <<"rug pull", "rugpull", "scam", "honeypot">>],
  [topic |-> "cold_wallet", words |-> <<"cold wallet", "hardware wallet", "ledger", "trezor", "hot wallet">>],
  [topic |-> "fud_fomo", words |-> <<"fud", "fomo", "fear of missing", "bull run", "bear market">>],
  [topic |-> "weth", words |-> <<"weth", "wrapped eth", "wrapped ether">>],
  [topic |-> "tokenomics", words |-> <<"tokenomics", "tokenomic", "supply", "vesting", "allocation">>],
  [topic |-> "address", words |-> <<>>],
  [topic |-> "price", words |-> <<"price", "how much is", "how much does">>],
  [topic |-> "help", words |-> <<"help", "command", "what can you">>]
>>

\* q.match(/0x[a-f0-9]{40}/i): the first match or Undefined
AddressMatch(q) ==
  LET starts == {i \in 1..Len(q) : LitAtCI(q, i, "0x") /\ RunLen(q, i + 2, HexSet) >= 40}
  IN IF starts = {} THEN Undefined ELSE SubSeq(q, SetMin(starts), SetMin(starts) + 41)

\* const has = (...words) => words.some(w => q.includes(w))
has(q, words) == \E k \in 1..Len(words) : Includes(q, words[k])

TopicMatches(q, t) ==
  IF t.topic = "address" THEN AddressMatch(q) # Undefined ELSE has(q, t.words)

\* the canned text returned by the branch of a topic, named by the topic
TopicAnswer(topic, q) ==
  IF topic = "address" THEN "answer:address:" \o AddressMatch(q) ELSE "answer:" \o topic

DefaultMenu == "answer:menu"

\* creditNote of the default branch
creditNote(errorCode) ==
  IF errorCode = "agent_wallet_missing" THEN "+note:agent wallet not configured"
  ELSE IF errorCode = "x402_sign_error" THEN "+note:x402 payment signing failed"
  ELSE IF errorCode # Undefined /\ StartsWith(errorCode, "x402_") THEN "+note:x402 payment error"
  ELSE ""

\* seeded fault: the branches are tried from the last to the first
generateFallbackResponseLastWins(message, errorCode) ==
  LET q == toLowerCase(message)
      hits == {i \in 1..Len(FallbackTopics) : TopicMatches(q, FallbackTopics[i])}
  IN IF hits # {} THEN TopicAnswer(FallbackTopics[SetMax(hits)].topic, q)
     ELSE DefaultMenu \o creditNote(errorCode)

generateFallbackResponse(message, errorCode) ==
  LET q == toLowerCase(message)
      hits == {i \in 1..Len(FallbackTopics) : TopicMatches(q, FallbackTopics[i])}
  IN IF hits # {} THEN TopicAnswer(FallbackTopics[SetMin(hits)].topic, q)
     ELSE DefaultMenu \o creditNote(errorCode)

\* ------------------------------------------------------------------------
\* Bounds and the values requests and collaborators are drawn from
\* ------------------------------------------------------------------------

\* requests handled in one run
MaxTurns == 2
\* storage statements that fail in one run
MaxDbFailures == 1
\* content deltas in one upstream completion stream
MaxDeltas == 2
\* POST /api/tracked-wallets requests accepted in one run
MaxWalletAdds == 3
\* calls of generateFallbackResponse made one after the other in one process
MaxFallbackCalls == 3

ValidWallet == "0x1111111111111111111111111111111111111111"
OtherWallet == "0x2222222222222222222222222222222222222222"
ShortWallet == "0xabc"

\* chat messages of the requests
ChatTexts == {
  "What is DeFi?",
  "gm",
  "please deploy name: foo",
  "deploy token Name: Foo Symbol: FOO",
  "Deploy token Name: Foo Symbol: FOO Wallet: 0x1111111111111111111111111111111111111111"
}

Sessions == {"s1"}

\* userWallet of a chat request, tokenAdmin of a deploy request
WalletInputs == {Undefined, "abc", ShortWallet, OtherWallet}

\* state of CONWAY_WALLET_PRIVATE_KEY at startup: unset, set to a value
\* privateKeyToAccount rejects, set to a usable key
KeyStates == {"absent", "invalid", "valid"}

ZeroAddress == "0x0000000000000000000000000000000000000000"
AgentAddress == "0x9b13c1b7696E94123ec28033004235d1b7303BeA"

CONWAY_INFERENCE == "https://inference.conway.tech/v1/chat/completions"
CONWAY_MODEL == "gpt-5-mini"
SYSTEM_PROMPT == "You are ConwayPad AI"

\* statuses the inference endpoint answers with
Statuses == {200, 402, 500}

\* err.message of a failed request or a broken stream
NetworkErrors == {"socket hang up", ""}

\* err.message of reading a property of null
NullReadError == "Cannot read properties of null (reading 'network')"

\* entries of accepts[] in a 402 body; network Undefined: the entry has none
PaymentOption(network) ==
  [scheme |-> "exact", network |-> network, maxAmountRequired |-> "48",
   payTo |-> "0x21DD37E3E4eA6CCC0a5C98A4944702eDE6E7Be10",
   asset |-> "0x833589fCD6eDb6E08f4c7C32D4f71b54bdA02913"]

NullOption == [null |-> TRUE]

\* 402 bodies: text that is no JSON, and JSON values with and without accepts
NotJson == [json |-> FALSE]
PaymentJson(accepts) == [json |-> TRUE, x402Version |-> 2, accepts |-> accepts]

PaymentBodies == {
  NotJson,
  PaymentJson(Undefined),
  PaymentJson(<<>>),
  PaymentJson(<<NullOption>>),
  PaymentJson(<<PaymentOption("eip155:8453")>>),
  PaymentJson(<<PaymentOption("eip155:1"), PaymentOption("eip155:8453")>>),
  PaymentJson(<<PaymentOption(Undefined)>>)
}

\* bodies of a rejected paid request: no JSON, JSON with a detail, JSON without
ErrorJson(detail) == [json |-> TRUE, detail |-> detail, error |-> Undefined, message |-> Undefined]
RejectBodies == {NotJson, ErrorJson("insufficient funds"), ErrorJson(Undefined)}

\* content deltas of a completion stream; "" is an event without content
Deltas == {"", "Hi"}

RECURSIVE SeqsUpTo(_, _)
SeqsUpTo(S, n) ==
  IF n = 0 THEN {<<>>}
  ELSE SeqsUpTo(S, n - 1) \cup {Append(q, x) : q \in SeqsUpTo(S, n - 1), x \in S}

DeltaStreams == SeqsUpTo(Deltas, MaxDeltas)

\* what the SDK's deploy resolves to: a transaction, an error value, a throw;
\* receipt is what the transaction's waitForTransaction() will settle to
SdkOutcomes == {
  [kind |-> "tx", txHash |-> "0xtx", receipt |-> "confirmed"],
  [kind |-> "tx", txHash |-> "0xtx", receipt |-> "failed"],
  [kind |-> "error", error |-> "execution reverted"],
  [kind |-> "throw", message |-> "insufficient funds for gas"],
  [kind |-> "throw", message |-> Undefined]
}

\* ------------------------------------------------------------------------
\* State
\* ------------------------------------------------------------------------

VARIABLES
  privateKey,     \* CONWAY_WALLET_PRIVATE_KEY as found at startup
  chatMessages,   \* rows of the chat_messages table, in insertion order
  tokenLaunches,  \* rows of the token_launches table, in insertion order
  dbPending,      \* statements sent to the database and not yet answered
  dbFailures,     \* statements that failed so far
  turns,          \* requests accepted so far
  prevOutcome,    \* how the relay of the previous chat turn ended
  route,          \* the handler that is running: none, chat, deploy, direct
  pc,             \* where the running handler waits
  req,            \* body of the request in flight
  res,            \* its response
  deployParams,   \* const deployParams of the chat handler
  fullContent,    \* let fullContent of the chat handler
  bodyStr,        \* const bodyStr of callConwayAI
  inference,      \* requests sent to the inference endpoint in this turn
  step1,          \* status of the first inference response
  paymentRequired,\* parsed body of the 402 response
  paymentHeader,  \* credential made by x402CreatePaymentHeader
  step2,          \* status of the second inference response
  errCode,        \* argument of onError
  failure,        \* which step of the relay failed
  dispatch,       \* parameters deployTokenViaSDK was called with and its result
  sdkCalls,       \* calls of clanker.deploy made for this request
  confirmations,  \* the waitForTransaction promises started so far
  trackedWallets, \* rows of the tracked_wallets table, in insertion order
  walletSeq,      \* last value of the serial id of tracked_wallets
  walletPending,  \* inserts into tracked_wallets not yet executed
  lastApi,        \* answer of the last history, wallet or launch-list request
  cleared,        \* sessions cleared by a DELETE with no chat request since
  call            \* a function applied on its own: its argument and result

storeVars == <<chatMessages, tokenLaunches, dbPending, dbFailures>>
relayVars == <<bodyStr, inference, step1, paymentRequired, paymentHeader, step2, errCode, failure>>
deployVars == <<dispatch, sdkCalls>>
walletVars == <<trackedWallets, walletSeq, walletPending>>
sideVars == <<confirmations, trackedWallets, walletSeq, walletPending, lastApi, cleared, call>>
vars == <<privateKey, chatMessages, tokenLaunches, dbPending, dbFailures, turns,
          prevOutcome, route, pc, req, res, deployParams, fullContent, bodyStr,
          inference, step1, paymentRequired, paymentHeader, step2, errCode, failure, dispatch,
          sdkCalls, confirmations, trackedWallets, walletSeq, walletPending, lastApi, cleared,
          call>>

\* ------------------------------------------------------------------------
\* Startup configuration
\* ------------------------------------------------------------------------

\* AGENT_WALLET_ADDRESS: the zero address unless the key yields an account
AGENT_WALLET_ADDRESS_Underived == ZeroAddress

AGENT_WALLET_ADDRESS == IF privateKey = "valid" THEN AgentAddress ELSE ZeroAddress

NoClients == [null |-> TRUE]

\* seeded fault: clients are made whether or not the key is usable
getViemClientsAlways == [account |-> AgentAddress, wallet |-> AgentAddress]

\* getViemClients: null without a key or when privateKeyToAccount throws
getViemClients ==
  IF privateKey = "absent" THEN NoClients
  ELSE IF privateKey = "invalid" THEN NoClients
  ELSE [account |-> AgentAddress, wallet |-> AgentAddress]

\* ------------------------------------------------------------------------
\* Response stream of POST /api/chat
\* ------------------------------------------------------------------------

ContentEvent(content) == [content |-> content, done |-> FALSE]
DoneEvent == [done |-> TRUE]

NoResponse == [status |-> 0, events |-> <<>>, ended |-> FALSE, late |-> <<>>, body |-> Undefined]
SseResponse == [NoResponse EXCEPT !.status = 200]
JsonResponse(status, body) == [NoResponse EXCEPT !.status = status, !.ended = TRUE, !.body = body]

\* res.write of an event; after res.end() nothing reaches the caller any more
Write(r, ev) ==
  IF r.ended THEN [r EXCEPT !.late = Append(@, ev)] ELSE [r EXCEPT !.events = Append(@, ev)]

sendChunk(r, content) == Write(r, ContentEvent(content))

sendDone(r) == [Write(r, DoneEvent) EXCEPT !.ended = TRUE]

\* ------------------------------------------------------------------------
\* Storage
\* ------------------------------------------------------------------------

ChatRow(sessionId, role, content) == [sessionId |-> sessionId, role |-> role, content |-> content]

\* getChatHistory: the session's rows ordered by createdAt
getChatHistory(sessionId) == SelectSeq(chatMessages, LAMBDA m : m.sessionId = sessionId)

\* seeded fault: the rows of the other sessions are deleted
clearChatHistoryOthers(rows, sessionId) == SelectSeq(rows, LAMBDA m : m.sessionId = sessionId)

\* clearChatHistory: delete from chat_messages where session_id = sessionId
clearChatHistory(rows, sessionId) == SelectSeq(rows, LAMBDA m : m.sessionId # sessionId)

\* a statement in flight: what it does and which continuation awaits it
DbInsertChat(cont, row) == [cont |-> cont, table |-> "chat", row |-> row]
DbInsertLaunch(row) == [cont |-> "launch", table |-> "launch", row |-> row]
DbSelectHistory(sessionId) == [cont |-> "history", table |-> "select", row |-> sessionId]

\* ------------------------------------------------------------------------
\* Texts of the chat deploy flow
\* ------------------------------------------------------------------------

\* the prompt for the wallet address
AskWallet(p) ==
  "Ready to deploy " \o p.name \o " (" \o p.symbol \o ")! I just need your wallet address"

Line(label, v) == IF Truthy(v) THEN "\n- " \o label \o v ELSE ""

\* the confirmation block streamed before the deployment
Preview(p, walletToUse) ==
  "Deploy Token Confirmation"
    \o "\n- Name: " \o p.name
    \o "\n- Symbol: " \o p.symbol
    \o "\n- Token Admin (Creator): " \o walletToUse
    \o Line("Website: ", p.websiteUrl)
    \o Line("X: ", p.twitterUrl)
    \o Line("Description: ", p.description)
    \o "\n- Fee Split: 90% you, 10% ConwayPad"
    \o "\n- Liquidity: Permanently locked on Uniswap V3"
    \o "\nProcessing deployment to Base blockchain..."

SuccessBlock(txHash) ==
  "Token Successfully Deployed!\n- TX Hash: " \o txHash
    \o "\n- Basescan: https://basescan.org/tx/" \o txHash

FailBlock(error) == "\n\nDeployment Failed\n\nError: " \o error

\* ------------------------------------------------------------------------
\* deployTokenViaSDK
\* ------------------------------------------------------------------------

DeployFailure(error) == [success |-> FALSE, txHash |-> Undefined, error |-> error]
DeploySuccess(txHash) == [success |-> TRUE, txHash |-> txHash, error |-> Undefined]
NoResult == [pending |-> TRUE]
NoDispatch == [called |-> FALSE]

\* seeded fault: the fee is split in halves
RewardRecipientsHalves(tokenAdmin) == <<
  [admin |-> tokenAdmin, recipient |-> tokenAdmin, bps |-> 5000, token |-> "Both"],
  [admin |-> AGENT_WALLET_ADDRESS, recipient |-> AGENT_WALLET_ADDRESS, bps |-> 5000, token |-> "Both"]
>>

\* rewards.recipients of the deploy call
RewardRecipients(tokenAdmin) == <<
  [admin |-> tokenAdmin, recipient |-> tokenAdmin, bps |-> 9000, token |-> "Both"],
  [admin |-> AGENT_WALLET_ADDRESS, recipient |-> AGENT_WALLET_ADDRESS, bps |-> 1000, token |-> "Both"]
>>

\* the argument of clanker.deploy
SdkDeployCall(p) ==
  [name |-> p.name,
   symbol |-> p.symbol,
   tokenAdmin |-> p.wallet,
   image |-> IF Truthy(p.imageUrl) THEN p.imageUrl
             ELSE "ipfs://bafybeigdyrzt5sfp7udm7hu76uh7y26nf3efuylqabf3oclgtqy55fbzdi",
   description |-> IF Truthy(p.description) THEN p.description
                   ELSE p.name \o " - deployed via ConwayPad",
   socialMediaUrls |->
     (IF Truthy(p.websiteUrl) THEN <<[platform |-> "website", url |-> p.websiteUrl]>> ELSE <<>>)
       \o (IF Truthy(p.twitterUrl) THEN <<[platform |-> "x", url |-> p.twitterUrl]>> ELSE <<>>),
   context |-> [interface |-> "ConwayPad", platform |-> "ConwayPad"],
   recipients |-> RewardRecipients(p.wallet)]

\* seeded fault: the required fields are not checked
DeployPrecheckKeyOnly(p) ==
  IF getViemClients = NoClients
  THEN DeployFailure("Server wallet not configured. Add CONWAY_WALLET_PRIVATE_KEY.")
  ELSE NoResult

\* the checks deployTokenViaSDK makes before it calls the SDK: the failure they
\* return, or NoResult when the SDK is to be called
DeployPrecheck(p) ==
  IF getViemClients = NoClients
  THEN DeployFailure("Server wallet not configured. Add CONWAY_WALLET_PRIVATE_KEY.")
  ELSE IF ~Truthy(p.name) \/ ~Truthy(p.symbol) \/ ~Truthy(p.wallet)
  THEN DeployFailure("Name, symbol, and wallet address are required.")
  ELSE NoResult

\* seeded fault: the confirmation is awaited and its failure is returned
DeployResultAwaited(o) ==
  IF o.kind = "throw"
  THEN DeployFailure(IF Truthy(o.message) THEN o.message ELSE "Deployment failed")
  ELSE IF o.kind = "error" THEN DeployFailure(o.error)
  ELSE IF o.receipt = "failed" THEN DeployFailure("Transaction failed")
  ELSE DeploySuccess(o.txHash)

\* what deployTokenViaSDK returns once clanker.deploy has settled
DeployResult(o) ==
  IF o.kind = "throw"
  THEN DeployFailure(IF Truthy(o.message) THEN o.message ELSE "Deployment failed")
  ELSE IF o.kind = "error" THEN DeployFailure(o.error)
  ELSE DeploySuccess(o.txHash)

\* waitForTransaction().catch(() => {}): without an error value the
\* confirmation is started and nothing waits for it
StartConfirmation(o) ==
  IF o.kind = "tx"
  THEN confirmations \cup {[turn |-> turns, txHash |-> o.txHash, receipt |-> o.receipt,
                            settled |-> FALSE]}
  ELSE confirmations

LaunchRow(name, symbol, wallet, txHash) ==
  [name |-> name, symbol |-> symbol, deployerWallet |-> wallet, txHash |-> txHash,
   tokenAddress |-> Undefined]

\* seeded fault: a launch with a known transaction hash replaces the stored one
addTokenLaunchUpsert(rows, row) ==
  IF \E i \in 1..Len(rows) : rows[i].txHash = row.txHash
  THEN [i \in 1..Len(rows) |-> IF rows[i].txHash = row.txHash THEN row ELSE rows[i]]
  ELSE Append(rows, row)

\* PgStorage.addTokenLaunch: db.insert(tokenLaunches).values(launch)
addTokenLaunch(rows, row) == Append(rows, row)

\* ------------------------------------------------------------------------
\* callConwayAI: requests, payment requirements, error tags
\* ------------------------------------------------------------------------

\* history.slice(-18)
HistoryWindow == 18

LastN(q, n) == IF Len(q) <= n THEN q ELSE SubSeq(q, Len(q) - n + 1, Len(q))

\* the messages handed to callConwayAI
ChatWindow(history) ==
  LET w == LastN(history, HistoryWindow)
  IN [i \in 1..Len(w) |-> [role |-> w[i].role, content |-> w[i].content]]

\* JSON.stringify({model, messages: [system, ...messages], max_tokens, stream})
RequestBody(messages) ==
  [model |-> CONWAY_MODEL,
   messages |-> <<[role |-> "system", content |-> SYSTEM_PROMPT]>> \o messages,
   max_tokens |-> 2048,
   stream |-> TRUE]

\* seeded fault: the first request reuses the credential of a turn whose
\* payment was accepted
Step1RequestCarried(body) ==
  [url |-> CONWAY_INFERENCE,
   payment |-> IF prevOutcome = "paid" THEN "carried" ELSE Undefined,
   body |-> body]

\* the first request: Content-Type only
Step1Request(body) == [url |-> CONWAY_INFERENCE, payment |-> Undefined, body |-> body]

\* the resent request: the same body with X-PAYMENT
Step2Request(body, header) == [url |-> CONWAY_INFERENCE, payment |-> header, body |-> body]

CAIP2_TO_X402_NETWORK ==
  ("eip155:8453" :> "base") @@ ("eip155:84532" :> "base-sepolia") @@
  ("eip155:137" :> "polygon") @@ ("eip155:80002" :> "polygon-amoy") @@
  ("eip155:43114" :> "avalanche") @@ ("eip155:43113" :> "avalanche-fuji")

normalizePaymentRequirements(r) ==
  LET network == IF Truthy(r.network) THEN r.network ELSE ""
  IN [r EXCEPT !.network = IF network \in DOMAIN CAIP2_TO_X402_NETWORK
                           THEN CAIP2_TO_X402_NETWORK[network]
                           ELSE network]

\* seeded fault: the last accepted option is taken
LastAccepted(paymentReq) == paymentReq.accepts[Len(paymentReq.accepts)]

\* paymentRequired.accepts[0]
FirstAccepted(paymentReq) == paymentReq.accepts[1]

\* !paymentRequired?.accepts?.length
NoAccepts(body) == body.accepts = Undefined \/ Len(body.accepts) = 0

\* the header x402CreatePaymentHeader makes for the wallet
PaymentHeader(clients, x402Version, requirements) ==
  [signer |-> clients.wallet, x402Version |-> x402Version, requirements |-> requirements]

WalletMissingTag == "agent_wallet_missing"
ParseErrorTag == "x402_parse_error"
NoAcceptsTag == "x402_no_accepts"
SignErrorTag == "x402_sign_error"
UnexpectedStatusTag(status) == "Conway error HTTP " \o ToString(status)

\* errMsg of a rejected paid request: j.detail || j.error || j.message || HTTP n
RejectMessage(status, body) ==
  IF body.json /\ Truthy(body.detail) THEN body.detail
  ELSE IF body.json /\ Truthy(body.error) THEN body.error
  ELSE IF body.json /\ Truthy(body.message) THEN body.message
  ELSE "HTTP " \o ToString(status)

PaymentRejectedTag(status, body) == "x402_payment_rejected: " \o RejectMessage(status, body)

\* seeded fault: the catch reports every exception as a parse error
CaughtTagAsParseError(message) == ParseErrorTag

\* the catch of callConwayAI: err.message || "Network error"
CaughtTag(message) == IF Truthy(message) THEN message ELSE "Network error"

\* the tags each kind of relay failure hands to onError
TagsOfKind(kind) ==
  IF kind = "no_key" THEN {WalletMissingTag}
  ELSE IF kind = "signing" THEN {SignErrorTag}
  ELSE IF kind = "status"
  THEN {UnexpectedStatusTag(st) : st \in Statuses \ {200, 402}}
         \cup {PaymentRejectedTag(st, b) : st \in Statuses \ {200}, b \in RejectBodies}
  ELSE IF kind = "malformed" THEN {ParseErrorTag, NoAcceptsTag, CaughtTag(NullReadError)}
  ELSE IF kind = "network" THEN {CaughtTag(m) : m \in NetworkErrors}
  ELSE {}

FailureKinds == {"no_key", "signing", "status", "malformed", "network"}

ErrorTags == UNION {TagsOfKind(k) : k \in FailureKinds}

\* const deployParams = parseDeployMessage(message), for the texts of the requests
ParsedTexts == {<<m, parseDeployMessage(m)>> : m \in ChatTexts}

Parsed(message) == (CHOOSE e \in ParsedTexts : e[1] = message)[2]

\* generateFallbackResponse(message, errCode), for the texts and the tags
FallbackTexts == {<<m, e, generateFallbackResponse(m, e)>> : m \in ChatTexts, e \in ErrorTags}

Fallback(message, tag) ==
  (CHOOSE e \in FallbackTexts : e[1] = message /\ e[2] = tag)[3]

\* ------------------------------------------------------------------------
\* Initial state
\* ------------------------------------------------------------------------

NoRequest == [none |-> TRUE]

\* no history, wallet or launch-list request has been answered
NoAnswer == [route |-> "none"]

\* no function is applied on its own
NoCall == [fn |-> "none"]

\* nothing is stored and no request has arrived
InitHandlers ==
  /\ tokenLaunches = <<>>
  /\ dbPending = {}
  /\ dbFailures = 0
  /\ turns = 0
  /\ prevOutcome = "none"
  /\ route = "none"
  /\ pc = "idle"
  /\ req = NoRequest
  /\ res = NoResponse
  /\ deployParams = NullParams
  /\ fullContent = ""
  /\ bodyStr = Undefined
  /\ inference = <<>>
  /\ step1 = 0
  /\ paymentRequired = Undefined
  /\ paymentHeader = Undefined
  /\ step2 = 0
  /\ errCode = Undefined
  /\ failure = "none"
  /\ dispatch = NoDispatch
  /\ sdkCalls = <<>>
  /\ confirmations = {}
  /\ trackedWallets = <<>>
  /\ walletSeq = 0
  /\ walletPending = EmptyBag
  /\ lastApi = NoAnswer
  /\ cleared = {}

InitIdle == chatMessages = <<>> /\ InitHandlers

Init ==
  /\ privateKey \in KeyStates
  /\ InitIdle
  /\ call = NoCall

\* how the relay of the turn that just ended went
RelayOutcome ==
  IF route # "chat" \/ (inference = <<>> /\ failure = "none") THEN prevOutcome
  ELSE IF failure = "none" THEN (IF step2 = 200 THEN "paid" ELSE "ok")
  ELSE IF step2 # 0 /\ step2 # 200 THEN "rejected"
  ELSE "failed"

\* a handler starts only when the previous one has returned and the database
\* has answered every statement
Quiet == pc \in {"idle", "done"} /\ dbPending = {} /\ turns < MaxTurns

\* the per-request variables of a fresh handler
FreshLocals ==
  /\ deployParams' = NullParams
  /\ fullContent' = ""
  /\ bodyStr' = Undefined
  /\ inference' = <<>>
  /\ step1' = 0
  /\ paymentRequired' = Undefined
  /\ paymentHeader' = Undefined
  /\ step2' = 0
  /\ errCode' = Undefined
  /\ failure' = "none"
  /\ dispatch' = NoDispatch
  /\ sdkCalls' = <<>>

\* ------------------------------------------------------------------------
\* POST /api/chat
\* ------------------------------------------------------------------------

\* the request arrives: 400 without message or sessionId, else the event
\* stream opens and the user message is sent to storage
ChatRequest(message, sessionId, userWallet) ==
  /\ Quiet
  /\ turns' = turns + 1
  /\ prevOutcome' = RelayOutcome
  /\ route' = "chat"
  /\ req' = [message |-> message, sessionId |-> sessionId, userWallet |-> userWallet]
  /\ FreshLocals
  /\ IF ~Truthy(message) \/ ~Truthy(sessionId)
     THEN /\ res' = JsonResponse(400, "message and sessionId required")
          /\ pc' = "done"
          /\ dbPending' = dbPending
     ELSE /\ res' = SseResponse
          /\ pc' = "await_db"
          /\ dbPending' = {DbInsertChat("user", ChatRow(sessionId, "user", message))}
  /\ cleared' = {e \in cleared : e.sessionId # sessionId}
  /\ UNCHANGED <<privateKey, chatMessages, tokenLaunches, dbFailures>>
  /\ UNCHANGED walletVars
  /\ UNCHANGED <<confirmations, lastApi, call>>

\* the catch block of the handler
CatchBlock(message) ==
  LET errMsg == "An error occurred: " \o (IF Truthy(message) THEN message ELSE "Unknown error")
  IN /\ res' = sendDone(sendChunk(res, errMsg))
     /\ pc' = "await_db"
     /\ dbPending' = {q \in dbPending : q.cont \notin {"user", "history", "final"}}
                       \cup {DbInsertChat("err", ChatRow(req.sessionId, "assistant", errMsg))}

DbErrorMessage == "connection terminated"

\* const walletToUse = deployParams.wallet || userWallet || ""
WalletToUse(p, userWallet) ==
  IF Truthy(p.wallet) THEN p.wallet ELSE IF Truthy(userWallet) THEN userWallet ELSE ""

\* seeded fault: any parse result takes the deploy branch
IsDeployTurnAnyIntent(p) == p # NullParams

\* if (deployParams && deployParams.name && deployParams.symbol)
IsDeployTurn(p) == p # NullParams /\ Truthy(p.name) /\ Truthy(p.symbol)

\* if (!walletToUse || !walletToUse.startsWith("0x"))
WalletMissing(walletToUse) == ~Truthy(walletToUse) \/ ~StartsWith(walletToUse, "0x")

\* seeded fault: the stream is ended before the result block is written
ChatAfterDeployEndsFirst(r, result, preview, p) ==
  LET block == IF result.success THEN "\n\n" \o SuccessBlock(result.txHash)
               ELSE FailBlock(result.error)
  IN /\ res' = sendChunk(sendDone(r), block)
     /\ pc' = "await_db"
     /\ dbPending' =
          (IF result.success
           THEN {DbInsertLaunch(LaunchRow(p.name, p.symbol, p.wallet, result.txHash))}
           ELSE {})
            \cup {DbInsertChat("final", ChatRow(req.sessionId, "assistant", preview))}

\* the chat handler after deployTokenViaSDK returned: the result block, the
\* launch record on success, the done event and the assistant message
ChatAfterDeploy(r, result, preview, p) ==
  LET block == IF result.success THEN "\n\n" \o SuccessBlock(result.txHash)
               ELSE FailBlock(result.error)
      finalContent == (preview \o "\n\n")
                        \o (IF result.success THEN SuccessBlock(result.txHash)
                            ELSE FailBlock(result.error))
  IN /\ res' = sendDone(sendChunk(r, block))
     /\ pc' = "await_db"
     /\ dbPending' =
          (IF result.success
           THEN {DbInsertLaunch(LaunchRow(p.name, p.symbol, p.wallet, result.txHash))}
           ELSE {})
            \cup {DbInsertChat("final", ChatRow(req.sessionId, "assistant", finalContent))}

\* the handler after the parse: the deploy branch (wallet prompt, or preview
\* and dispatch) when name and symbol were found, regular chat otherwise
ChatBranch(p) ==
  LET walletToUse == WalletToUse(p, req.userWallet)
      params == [p EXCEPT !.wallet = walletToUse]
      preview == Preview(p, walletToUse)
  IN /\ deployParams' = p
     /\ IF ~IsDeployTurn(p)
        THEN /\ dbPending' = {DbSelectHistory(req.sessionId)}
             /\ pc' = "await_db"
             /\ UNCHANGED <<res, dispatch, sdkCalls>>
        ELSE IF WalletMissing(walletToUse)
        THEN /\ res' = sendDone(sendChunk(res, AskWallet(p)))
             /\ dbPending' = {DbInsertChat("final",
                                 ChatRow(req.sessionId, "assistant", AskWallet(p)))}
             /\ pc' = "await_db"
             /\ UNCHANGED <<dispatch, sdkCalls>>
        ELSE IF DeployPrecheck(params) # NoResult
        THEN /\ dispatch' = [called |-> TRUE, params |-> params,
                             result |-> DeployPrecheck(params)]
             /\ ChatAfterDeploy(sendChunk(res, preview), DeployPrecheck(params),
                                preview, params)
             /\ UNCHANGED sdkCalls
        ELSE /\ dispatch' = [called |-> TRUE, params |-> params, result |-> NoResult]
             /\ sdkCalls' = Append(sdkCalls, SdkDeployCall(params))
             /\ res' = sendChunk(res, preview)
             /\ pc' = "await_sdk"
             /\ dbPending' = {}

\* the user message is stored: parse the deploy intent and branch
StoreUserMessage(ok) ==
  /\ pc = "await_db"
  /\ \E q \in dbPending : q.cont = "user"
  /\ IF ~ok
     THEN /\ dbFailures < MaxDbFailures
          /\ dbFailures' = dbFailures + 1
          /\ CatchBlock(DbErrorMessage)
          /\ UNCHANGED <<chatMessages, deployParams, dispatch, sdkCalls>>
     ELSE /\ chatMessages' = Append(chatMessages, (CHOOSE q \in dbPending : q.cont = "user").row)
          /\ dbFailures' = dbFailures
          /\ ChatBranch(Parsed(req.message))
  /\ UNCHANGED <<privateKey, tokenLaunches, turns, prevOutcome, route, req, fullContent>>
  /\ UNCHANGED relayVars
  /\ UNCHANGED sideVars

\* clanker.deploy settles in a chat deploy turn
ChatDeployReturn(o) ==
  /\ route = "chat"
  /\ pc = "await_sdk"
  /\ dispatch' = [dispatch EXCEPT !.result = DeployResult(o)]
  /\ ChatAfterDeploy(res, DeployResult(o), Preview(deployParams, dispatch.params.wallet),
                     dispatch.params)
  /\ confirmations' = StartConfirmation(o)
  /\ UNCHANGED <<privateKey, chatMessages, tokenLaunches, dbFailures, turns, prevOutcome,
                 route, req, deployParams, fullContent, sdkCalls>>
  /\ UNCHANGED relayVars
  /\ UNCHANGED walletVars
  /\ UNCHANGED <<lastApi, cleared, call>>

\* ------------------------------------------------------------------------
\* Regular AI chat: callConwayAI with the callbacks of the chat handler
\* ------------------------------------------------------------------------

chatLocals == <<privateKey, chatMessages, tokenLaunches, dbFailures, turns, prevOutcome,
                route, req, deployParams>>

\* if (fullContent) await storage.addChatMessage(...): the statements the
\* handler sends after callConwayAI returned
StoreIfContent(content) ==
  IF Truthy(content)
  THEN {DbInsertChat("final", ChatRow(req.sessionId, "assistant", content))}
  ELSE {}

\* seeded fault: the callback ends the stream without the fallback answer
onErrorSilent(r, tag, kind) ==
  /\ res' = sendDone(r)
  /\ fullContent' = ""
  /\ dbPending' = {}
  /\ pc' = "done"
  /\ errCode' = tag
  /\ failure' = kind

\* onError(errCode) and the handler's code after callConwayAI: the callback
\* streams the fallback answer and the done event and sends its insert; it is
\* not awaited, so callConwayAI returns and the handler tests fullContent
\* before the callback's insert has been answered
onError(r, tag, kind) ==
  LET fallback == Fallback(req.message, tag)
  IN /\ res' = sendDone(sendChunk(r, fallback))
     /\ fullContent' = fallback
     /\ dbPending' = {DbInsertChat("onError", ChatRow(req.sessionId, "assistant", fallback))}
                       \cup StoreIfContent(fallback)
     /\ pc' = IF Truthy(fallback) THEN "await_db" ELSE "done"
     /\ errCode' = tag
     /\ failure' = kind

\* readSseStream: onChunk for every event that carries a content delta
RECURSIVE Concat(_)
Concat(deltas) == IF deltas = <<>> THEN "" ELSE Head(deltas) \o Concat(Tail(deltas))

RECURSIVE StreamChunks(_, _)
StreamChunksUnfiltered(r, deltas) ==
  IF deltas = <<>> THEN r ELSE sendChunk(r, Concat(deltas))

StreamChunks(r, deltas) ==
  IF deltas = <<>> THEN r
  ELSE StreamChunks(IF Truthy(Head(deltas)) THEN sendChunk(r, Head(deltas)) ELSE r,
                    Tail(deltas))

\* a 200 response is read to its end (onDone) or until the stream breaks (the
\* catch of callConwayAI)
ReadStream(deltas, broken, message) ==
  IF broken
  THEN onError(StreamChunks(res, deltas), CaughtTag(message), "network")
  ELSE /\ res' = sendDone(StreamChunks(res, deltas))
       /\ fullContent' = fullContent \o Concat(deltas)
       /\ dbPending' = StoreIfContent(fullContent \o Concat(deltas))
       /\ pc' = IF Truthy(fullContent \o Concat(deltas)) THEN "await_db" ELSE "done"
       /\ UNCHANGED <<errCode, failure>>

\* the history is loaded: callConwayAI starts and sends the first request,
\* or fails at once without a signing key
LoadHistory(ok) ==
  /\ pc = "await_db"
  /\ \E q \in dbPending : q.cont = "history"
  /\ IF ~ok
     THEN /\ dbFailures < MaxDbFailures
          /\ dbFailures' = dbFailures + 1
          /\ CatchBlock(DbErrorMessage)
          /\ UNCHANGED <<fullContent, bodyStr, inference, errCode, failure>>
     ELSE /\ dbFailures' = dbFailures
          /\ IF getViemClients = NoClients
             THEN /\ onError(res, WalletMissingTag, "no_key")
                  /\ UNCHANGED <<bodyStr, inference>>
             ELSE /\ bodyStr' = RequestBody(ChatWindow(getChatHistory(req.sessionId)))
                  /\ inference' = <<Step1Request(bodyStr')>>
                  /\ pc' = "await_step1"
                  /\ dbPending' = {}
                  /\ UNCHANGED <<res, fullContent, errCode, failure>>
  /\ UNCHANGED <<privateKey, chatMessages, tokenLaunches, turns, prevOutcome, route, req,
                 deployParams, step1, paymentRequired, paymentHeader, step2>>
  /\ UNCHANGED deployVars
  /\ UNCHANGED sideVars

\* the first request fails in the network
Step1NetworkError(message) ==
  /\ pc = "await_step1"
  /\ onError(res, CaughtTag(message), "network")
  /\ UNCHANGED chatLocals
  /\ UNCHANGED <<bodyStr, inference, step1, paymentRequired, paymentHeader, step2>>
  /\ UNCHANGED deployVars
  /\ UNCHANGED sideVars

\* the first request is answered 200: stream directly
Step1Ok(deltas, broken, message) ==
  /\ pc = "await_step1"
  /\ step1' = 200
  /\ ReadStream(deltas, broken, message)
  /\ UNCHANGED chatLocals
  /\ UNCHANGED <<bodyStr, inference, paymentRequired, paymentHeader, step2>>
  /\ UNCHANGED deployVars
  /\ UNCHANGED sideVars

\* seeded fault: a status other than 200 and 402 makes the relay send the
\* request again
Step1UnexpectedRetry(status) ==
  /\ pc = "await_step1"
  /\ status \notin {200, 402}
  /\ step1' = status
  /\ inference' = Append(inference, Step1Request(bodyStr))
  /\ UNCHANGED chatLocals
  /\ UNCHANGED <<res, fullContent, dbPending, pc, errCode, failure>>
  /\ UNCHANGED <<bodyStr, paymentRequired, paymentHeader, step2>>
  /\ UNCHANGED deployVars
  /\ UNCHANGED sideVars

\* the first request is answered with a status other than 200 and 402
Step1Unexpected(status) ==
  /\ pc = "await_step1"
  /\ status \notin {200, 402}
  /\ step1' = status
  /\ onError(res, UnexpectedStatusTag(status), "status")
  /\ UNCHANGED chatLocals
  /\ UNCHANGED <<bodyStr, inference, paymentRequired, paymentHeader, step2>>
  /\ UNCHANGED deployVars
  /\ UNCHANGED sideVars

\* the first request is answered 402: parse the payment requirements and start
\* signing for the first accepted option
Step1PaymentRequired(body) ==
  /\ pc = "await_step1"
  /\ step1' = 402
  /\ IF ~body.json
     THEN /\ onError(res, ParseErrorTag, "malformed")
          /\ UNCHANGED paymentRequired
     ELSE IF NoAccepts(body)
     THEN /\ onError(res, NoAcceptsTag, "malformed")
          /\ UNCHANGED paymentRequired
     ELSE IF FirstAccepted(body) = NullOption
     THEN /\ onError(res, CaughtTag(NullReadError), "malformed")
          /\ UNCHANGED paymentRequired
     ELSE /\ paymentRequired' = body
          /\ pc' = "await_sign"
          /\ UNCHANGED <<res, fullContent, dbPending, errCode, failure>>
  /\ UNCHANGED chatLocals
  /\ UNCHANGED <<bodyStr, inference, paymentHeader, step2>>
  /\ UNCHANGED deployVars
  /\ UNCHANGED sideVars

\* x402CreatePaymentHeader settles: resend with the credential, or give up
SignReturn(ok) ==
  /\ pc = "await_sign"
  /\ IF ok
     THEN /\ paymentHeader' = PaymentHeader(getViemClients, paymentRequired.x402Version,
                                 normalizePaymentRequirements(FirstAccepted(paymentRequired)))
          /\ inference' = Append(inference, Step2Request(bodyStr, paymentHeader'))
          /\ pc' = "await_step2"
          /\ UNCHANGED <<res, fullContent, dbPending, errCode, failure>>
     ELSE /\ onError(res, SignErrorTag, "signing")
          /\ UNCHANGED <<paymentHeader, inference>>
  /\ UNCHANGED chatLocals
  /\ UNCHANGED <<bodyStr, step1, paymentRequired, step2>>
  /\ UNCHANGED deployVars
  /\ UNCHANGED sideVars

\* the resent request fails in the network
Step2NetworkError(message) ==
  /\ pc = "await_step2"
  /\ onError(res, CaughtTag(message), "network")
  /\ UNCHANGED chatLocals
  /\ UNCHANGED <<bodyStr, inference, step1, paymentRequired, paymentHeader, step2>>
  /\ UNCHANGED deployVars
  /\ UNCHANGED sideVars

\* the resent request is answered 200
Step2Ok(deltas, broken, message) ==
  /\ pc = "await_step2"
  /\ step2' = 200
  /\ ReadStream(deltas, broken, message)
  /\ UNCHANGED chatLocals
  /\ UNCHANGED <<bodyStr, inference, step1, paymentRequired, paymentHeader>>
  /\ UNCHANGED deployVars
  /\ UNCHANGED sideVars

\* the resent request is answered with any other status: terminal for the turn
Step2Rejected(status, body) ==
  /\ pc = "await_step2"
  /\ status # 200
  /\ step2' = status
  /\ onError(res, PaymentRejectedTag(status, body), "status")
  /\ UNCHANGED chatLocals
  /\ UNCHANGED <<bodyStr, inference, step1, paymentRequired, paymentHeader>>
  /\ UNCHANGED deployVars
  /\ UNCHANGED sideVars

\* ------------------------------------------------------------------------
\* Storage answers the remaining statements
\* ------------------------------------------------------------------------

stmtFrame == <<privateKey, turns, prevOutcome, route, req, deployParams>>

\* the awaited insert of the assistant message: the handler returns, or its
\* catch block runs
StoreAssistant(ok) ==
  /\ pc = "await_db"
  /\ \E q \in dbPending : q.cont = "final"
  /\ LET q == CHOOSE qq \in dbPending : qq.cont = "final"
     IN IF ok
        THEN /\ chatMessages' = Append(chatMessages, q.row)
             /\ dbPending' = dbPending \ {q}
             /\ pc' = "done"
             /\ UNCHANGED <<dbFailures, res>>
        ELSE /\ dbFailures < MaxDbFailures
             /\ dbFailures' = dbFailures + 1
             /\ CatchBlock(DbErrorMessage)
             /\ UNCHANGED chatMessages
  /\ UNCHANGED stmtFrame
  /\ UNCHANGED <<tokenLaunches, fullContent>>
  /\ UNCHANGED relayVars
  /\ UNCHANGED deployVars
  /\ UNCHANGED sideVars

\* the insert sent by onError: afterwards the callback clears fullContent; a
\* failure is a rejection nobody handles
StoreFallback(ok) ==
  /\ \E q \in dbPending : q.cont = "onError"
  /\ LET q == CHOOSE qq \in dbPending : qq.cont = "onError"
     IN /\ dbPending' = dbPending \ {q}
        /\ IF ok
           THEN /\ chatMessages' = Append(chatMessages, q.row)
                /\ fullContent' = ""
                /\ UNCHANGED dbFailures
           ELSE /\ dbFailures < MaxDbFailures
                /\ dbFailures' = dbFailures + 1
                /\ UNCHANGED <<chatMessages, fullContent>>
  /\ UNCHANGED stmtFrame
  /\ UNCHANGED <<tokenLaunches, pc, res>>
  /\ UNCHANGED relayVars
  /\ UNCHANGED deployVars
  /\ UNCHANGED sideVars

\* the insert of the launch record: not awaited, a failure is swallowed
StoreLaunch(ok) ==
  /\ \E q \in dbPending : q.cont = "launch"
  /\ LET q == CHOOSE qq \in dbPending : qq.cont = "launch"
     IN /\ dbPending' = dbPending \ {q}
        /\ IF ok
           THEN /\ tokenLaunches' = addTokenLaunch(tokenLaunches, q.row)
                /\ UNCHANGED dbFailures
           ELSE /\ dbFailures < MaxDbFailures
                /\ dbFailures' = dbFailures + 1
                /\ UNCHANGED tokenLaunches
  /\ UNCHANGED stmtFrame
  /\ UNCHANGED <<chatMessages, pc, res, fullContent>>
  /\ UNCHANGED relayVars
  /\ UNCHANGED deployVars
  /\ UNCHANGED sideVars

\* the insert of the catch block: awaited, a failure is swallowed
StoreErrorMessage(ok) ==
  /\ pc = "await_db"
  /\ \E q \in dbPending : q.cont = "err"
  /\ LET q == CHOOSE qq \in dbPending : qq.cont = "err"
     IN /\ dbPending' = dbPending \ {q}
        /\ pc' = "done"
        /\ IF ok
           THEN /\ chatMessages' = Append(chatMessages, q.row)
                /\ UNCHANGED dbFailures
           ELSE /\ dbFailures < MaxDbFailures
                /\ dbFailures' = dbFailures + 1
                /\ UNCHANGED chatMessages
  /\ UNCHANGED stmtFrame
  /\ UNCHANGED <<tokenLaunches, res, fullContent>>
  /\ UNCHANGED relayVars
  /\ UNCHANGED deployVars
  /\ UNCHANGED sideVars

\* ------------------------------------------------------------------------
\* POST /api/clanker/deploy
\* ------------------------------------------------------------------------

ApiParams(body) ==
  DeployParams(body.name, body.symbol, body.tokenAdmin, Undefined, Undefined, Undefined,
               Undefined)

\* seeded fault: the launch is recorded whatever the result
ApiAfterDeployRecordsAll(result, p) ==
  /\ pc' = "done"
  /\ res' = IF ~result.success THEN JsonResponse(500, result.error)
            ELSE JsonResponse(200, result.txHash)
  /\ dbPending' = {DbInsertLaunch(LaunchRow(p.name, p.symbol, p.wallet, result.txHash))}

\* the deploy handler after deployTokenViaSDK returned
ApiAfterDeploy(result, p) ==
  /\ pc' = "done"
  /\ IF ~result.success
     THEN /\ res' = JsonResponse(500, result.error)
          /\ dbPending' = {}
     ELSE /\ res' = JsonResponse(200, result.txHash)
          /\ dbPending' = {DbInsertLaunch(LaunchRow(p.name, p.symbol, p.wallet, result.txHash))}

\* the request arrives: 400 without name, symbol or tokenAdmin, else dispatch
DeployRequest(name, symbol, tokenAdmin) ==
  /\ Quiet
  /\ turns' = turns + 1
  /\ prevOutcome' = RelayOutcome
  /\ route' = "deploy"
  /\ req' = [name |-> name, symbol |-> symbol, tokenAdmin |-> tokenAdmin]
  /\ deployParams' = NullParams
  /\ fullContent' = ""
  /\ bodyStr' = Undefined
  /\ inference' = <<>>
  /\ step1' = 0
  /\ paymentRequired' = Undefined
  /\ paymentHeader' = Undefined
  /\ step2' = 0
  /\ errCode' = Undefined
  /\ failure' = "none"
  /\ IF ~Truthy(name) \/ ~Truthy(symbol) \/ ~Truthy(tokenAdmin)
     THEN /\ res' = JsonResponse(400, "name, symbol, and tokenAdmin are required")
          /\ pc' = "done"
          /\ dispatch' = NoDispatch
          /\ sdkCalls' = <<>>
          /\ dbPending' = {}
     ELSE IF DeployPrecheck(ApiParams(req')) # NoResult
     THEN /\ dispatch' = [called |-> TRUE, params |-> ApiParams(req'),
                          result |-> DeployPrecheck(ApiParams(req'))]
          /\ sdkCalls' = <<>>
          /\ ApiAfterDeploy(DeployPrecheck(ApiParams(req')), ApiParams(req'))
     ELSE /\ dispatch' = [called |-> TRUE, params |-> ApiParams(req'), result |-> NoResult]
          /\ sdkCalls' = <<SdkDeployCall(ApiParams(req'))>>
          /\ res' = NoResponse
          /\ pc' = "await_sdk"
          /\ dbPending' = {}
  /\ UNCHANGED <<privateKey, chatMessages, tokenLaunches, dbFailures>>
  /\ UNCHANGED sideVars

\* clanker.deploy settles for the deploy endpoint
ApiDeployReturn(o) ==
  /\ route = "deploy"
  /\ pc = "await_sdk"
  /\ dispatch' = [dispatch EXCEPT !.result = DeployResult(o)]
  /\ ApiAfterDeploy(DeployResult(o), dispatch.params)
  /\ confirmations' = StartConfirmation(o)
  /\ UNCHANGED <<privateKey, chatMessages, tokenLaunches, dbFailures, turns, prevOutcome,
                 route, req, deployParams, fullContent, sdkCalls>>
  /\ UNCHANGED relayVars
  /\ UNCHANGED walletVars
  /\ UNCHANGED <<lastApi, cleared, call>>

\* ------------------------------------------------------------------------
\* GET and DELETE /api/chat/history/:sessionId
\* ------------------------------------------------------------------------

\* a chat turn of the session has not returned yet, or an insert it sent has
\* not been answered
TurnInFlight(sessionId) ==
  /\ route = "chat"
  /\ req.sessionId = sessionId
  /\ ~(pc \in {"idle", "done"} /\ dbPending = {})

\* GET: the handler answers with the rows the select returns, or with 500
GetHistory(sessionId, ok) ==
  /\ IF ok
     THEN /\ lastApi' = [route |-> "history", sessionId |-> sessionId, status |-> 200,
                         body |-> getChatHistory(sessionId)]
          /\ UNCHANGED dbFailures
     ELSE /\ dbFailures < MaxDbFailures
          /\ dbFailures' = dbFailures + 1
          /\ lastApi' = [route |-> "history", sessionId |-> sessionId, status |-> 500,
                         body |-> DbErrorMessage]
  /\ UNCHANGED <<privateKey, chatMessages, tokenLaunches, dbPending, turns, prevOutcome, route,
                 pc, req, res, deployParams, fullContent>>
  /\ UNCHANGED relayVars
  /\ UNCHANGED deployVars
  /\ UNCHANGED walletVars
  /\ UNCHANGED <<confirmations, cleared, call>>

\* DELETE: the handler answers {ok: true} when the delete has run, or 500
\* seeded fault: the delete has no where clause
ClearHistoryUnscoped(sessionId, ok) ==
  /\ IF ok
     THEN /\ chatMessages' = <<>>
          /\ lastApi' = [route |-> "clear", sessionId |-> sessionId, status |-> 200,
                         body |-> "ok"]
          /\ cleared' = {e \in cleared : e.sessionId # sessionId}
                          \cup {[sessionId |-> sessionId, inFlight |-> TurnInFlight(sessionId)]}
          /\ UNCHANGED dbFailures
     ELSE /\ dbFailures < MaxDbFailures
          /\ dbFailures' = dbFailures + 1
          /\ lastApi' = [route |-> "clear", sessionId |-> sessionId, status |-> 500,
                         body |-> DbErrorMessage]
          /\ UNCHANGED <<chatMessages, cleared>>
  /\ UNCHANGED <<privateKey, tokenLaunches, dbPending, turns, prevOutcome, route, pc, req, res,
                 deployParams, fullContent>>
  /\ UNCHANGED relayVars
  /\ UNCHANGED deployVars
  /\ UNCHANGED walletVars
  /\ UNCHANGED <<confirmations, call>>

ClearHistory(sessionId, ok) ==
  /\ IF ok
     THEN /\ chatMessages' = clearChatHistory(chatMessages, sessionId)
          /\ lastApi' = [route |-> "clear", sessionId |-> sessionId, status |-> 200,
                         body |-> "ok"]
          /\ cleared' = {e \in cleared : e.sessionId # sessionId}
                          \cup {[sessionId |-> sessionId, inFlight |-> TurnInFlight(sessionId)]}
          /\ UNCHANGED dbFailures
     ELSE /\ dbFailures < MaxDbFailures
          /\ dbFailures' = dbFailures + 1
          /\ lastApi' = [route |-> "clear", sessionId |-> sessionId, status |-> 500,
                         body |-> DbErrorMessage]
          /\ UNCHANGED <<chatMessages, cleared>>
  /\ UNCHANGED <<privateKey, tokenLaunches, dbPending, turns, prevOutcome, route, pc, req, res,
                 deployParams, fullContent>>
  /\ UNCHANGED relayVars
  /\ UNCHANGED deployVars
  /\ UNCHANGED walletVars
  /\ UNCHANGED <<confirmations, call>>

\* ------------------------------------------------------------------------
\* GET, POST and DELETE /api/tracked-wallets
\* ------------------------------------------------------------------------

MixedCaseWallet == "0xAbCdEf1111111111111111111111111111111111"

\* bodies of POST /api/tracked-wallets: an address with and without a label,
\* the same address in lower case, a body without an address
WalletBodies == {
  [walletAddress |-> MixedCaseWallet, label |-> Undefined],
  [walletAddress |-> MixedCaseWallet, label |-> "mine"],
  [walletAddress |-> toLowerCase(MixedCaseWallet), label |-> Undefined],
  [walletAddress |-> Undefined, label |-> "mine"]
}

\* insertTrackedWalletSchema.safeParse: wallet_address is a notNull text
\* column, label is nullable
WalletSchemaAccepts(body) == body.walletAddress # Undefined

\* seeded fault: the column is declared without unique()
UniqueViolationNever(rows, row) == FALSE

\* wallet_address text notNull unique: the insert violates the constraint when
\* a stored row has the same text
UniqueViolation(rows, row) ==
  \E i \in 1..Len(rows) : rows[i].walletAddress = row.walletAddress

\* PgStorage.removeTrackedWallet: delete from tracked_wallets where id = id
removeTrackedWallet(rows, id) == SelectSeq(rows, LAMBDA w : w.id # id)

\* POST arrives: 400 when the body fails the schema, else the insert is sent
AddWalletRequest(body) ==
  /\ walletSeq + BagCardinality(walletPending) < MaxWalletAdds
  /\ IF ~WalletSchemaAccepts(body)
     THEN /\ lastApi' = [route |-> "wallet-add", status |-> 400, body |-> "invalid wallet"]
          /\ UNCHANGED walletPending
     ELSE /\ walletPending' = walletPending (+) SetToBag({body})
          /\ UNCHANGED lastApi
  /\ UNCHANGED <<privateKey, turns, prevOutcome, route, pc, req, res, deployParams,
                 fullContent>>
  /\ UNCHANGED storeVars
  /\ UNCHANGED relayVars
  /\ UNCHANGED deployVars
  /\ UNCHANGED <<trackedWallets, walletSeq, confirmations, cleared, call>>

\* the database runs one of the inserts sent: the row is stored under the next
\* id and is the response, or the insert fails with a uniqueness violation,
\* which rejects the handler: it has no catch and sends nothing
AddWalletStore(body) ==
  /\ BagIn(body, walletPending)
  /\ walletPending' = walletPending (-) SetToBag({body})
  /\ walletSeq' = walletSeq + 1
  /\ IF UniqueViolation(trackedWallets, body)
     THEN /\ lastApi' = [route |-> "wallet-add", status |-> 0, body |-> body,
                         error |-> "unique_violation"]
          /\ UNCHANGED trackedWallets
     ELSE /\ trackedWallets' =
               Append(trackedWallets, [id |-> walletSeq + 1,
                                       walletAddress |-> body.walletAddress,
                                       label |-> body.label])
          /\ lastApi' = [route |-> "wallet-add", status |-> 200, body |-> body]
  /\ UNCHANGED <<privateKey, turns, prevOutcome, route, pc, req, res, deployParams,
                 fullContent>>
  /\ UNCHANGED storeVars
  /\ UNCHANGED relayVars
  /\ UNCHANGED deployVars
  /\ UNCHANGED <<confirmations, cleared, call>>

\* DELETE /api/tracked-wallets/:id
RemoveWallet(id) ==
  /\ trackedWallets' = removeTrackedWallet(trackedWallets, id)
  /\ lastApi' = [route |-> "wallet-remove", status |-> 200, body |-> "ok"]
  /\ UNCHANGED <<privateKey, turns, prevOutcome, route, pc, req, res, deployParams,
                 fullContent>>
  /\ UNCHANGED storeVars
  /\ UNCHANGED relayVars
  /\ UNCHANGED deployVars
  /\ UNCHANGED <<walletSeq, walletPending, confirmations, cleared, call>>

\* GET /api/tracked-wallets: the stored wallets ordered by createdAt
ListWallets ==
  /\ lastApi' = [route |-> "wallet-list", status |-> 200, body |-> trackedWallets]
  /\ UNCHANGED <<privateKey, turns, prevOutcome, route, pc, req, res, deployParams,
                 fullContent>>
  /\ UNCHANGED storeVars
  /\ UNCHANGED relayVars
  /\ UNCHANGED deployVars
  /\ UNCHANGED walletVars
  /\ UNCHANGED <<confirmations, cleared, call>>

NextWallets ==
  \/ \E body \in WalletBodies : AddWalletRequest(body)
  \/ \E body \in WalletBodies : AddWalletStore(body)
  \/ \E id \in 1..MaxWalletAdds : RemoveWallet(id)
  \/ ListWallets

SpecWallets == Init /\ [][NextWallets]_vars

\* ------------------------------------------------------------------------
\* GET and POST /api/token-launches
\* ------------------------------------------------------------------------

\* bodies of POST /api/token-launches: with every column, with the required
\* columns only (an empty name is a string), without a name
LaunchBodies == {
  [name |-> "Foo", symbol |-> "FOO", deployerWallet |-> OtherWallet, txHash |-> "0xposted",
   tokenAddress |-> "0xtoken"],
  [name |-> "", symbol |-> "FOO", deployerWallet |-> "abc", txHash |-> Undefined,
   tokenAddress |-> Undefined],
  [name |-> Undefined, symbol |-> "FOO", deployerWallet |-> OtherWallet, txHash |-> "0xposted",
   tokenAddress |-> Undefined]
}

\* insertTokenLaunchSchema.safeParse: name, symbol and deployer_wallet are
\* notNull text columns, token_address and tx_hash are nullable
LaunchSchemaAccepts(body) ==
  body.name # Undefined /\ body.symbol # Undefined /\ body.deployerWallet # Undefined

\* the insert of POST /api/token-launches, awaited by the handler
DbPostLaunch(row) == [cont |-> "post", table |-> "launch", row |-> row]

\* POST /api/token-launches arrives: 400 when the body fails the schema, else
\* the parsed record is sent to storage
LaunchRequest(body) ==
  /\ Quiet
  /\ turns' = turns + 1
  /\ prevOutcome' = RelayOutcome
  /\ route' = "launches"
  /\ req' = body
  /\ FreshLocals
  /\ IF ~LaunchSchemaAccepts(body)
     THEN /\ res' = JsonResponse(400, "invalid launch")
          /\ pc' = "done"
          /\ dbPending' = {}
     ELSE /\ res' = NoResponse
          /\ pc' = "await_db"
          /\ dbPending' = {DbPostLaunch(body)}
  /\ UNCHANGED <<privateKey, chatMessages, tokenLaunches, dbFailures>>
  /\ UNCHANGED sideVars

\* the insert is answered: the stored record is the response; a failure
\* rejects the handler, which has no catch and sends nothing
LaunchStore(ok) ==
  /\ route = "launches"
  /\ pc = "await_db"
  /\ \E q \in dbPending : q.cont = "post"
  /\ LET q == CHOOSE qq \in dbPending : qq.cont = "post"
     IN /\ dbPending' = dbPending \ {q}
        /\ pc' = "done"
        /\ IF ok
           THEN /\ tokenLaunches' = addTokenLaunch(tokenLaunches, q.row)
                /\ res' = JsonResponse(200, "launch stored")
                /\ UNCHANGED dbFailures
           ELSE /\ dbFailures < MaxDbFailures
                /\ dbFailures' = dbFailures + 1
                /\ UNCHANGED <<tokenLaunches, res>>
  /\ UNCHANGED stmtFrame
  /\ UNCHANGED <<chatMessages, fullContent>>
  /\ UNCHANGED relayVars
  /\ UNCHANGED deployVars
  /\ UNCHANGED sideVars

\* GET /api/token-launches: the stored launches ordered by createdAt
LaunchList ==
  /\ Quiet
  /\ turns' = turns + 1
  /\ prevOutcome' = RelayOutcome
  /\ route' = "launch-list"
  /\ req' = NoRequest
  /\ FreshLocals
  /\ res' = JsonResponse(200, "launches")
  /\ lastApi' = [route |-> "launch-list", status |-> 200, body |-> tokenLaunches]
  /\ pc' = "done"
  /\ UNCHANGED storeVars
  /\ UNCHANGED <<privateKey, confirmations, cleared, call>>
  /\ UNCHANGED walletVars

\* ------------------------------------------------------------------------
\* The confirmation of a deployed transaction
\* ------------------------------------------------------------------------

\* a waitForTransaction promise settles: a fulfilment has no continuation and
\* a rejection runs the empty catch handler
ConfirmationSettles(c) ==
  /\ c \in confirmations
  /\ ~c.settled
  /\ confirmations' = (confirmations \ {c}) \cup {[c EXCEPT !.settled = TRUE]}
  /\ UNCHANGED <<privateKey, turns, prevOutcome, route, pc, req, res, deployParams,
                 fullContent>>
  /\ UNCHANGED storeVars
  /\ UNCHANGED relayVars
  /\ UNCHANGED deployVars
  /\ UNCHANGED walletVars
  /\ UNCHANGED <<lastApi, cleared, call>>

\* ------------------------------------------------------------------------
\* The server
\* ------------------------------------------------------------------------

Next ==
  \/ \E m \in ChatTexts \cup {""}, s \in Sessions, w \in WalletInputs : ChatRequest(m, s, w)
  \/ \E ok \in BOOLEAN : StoreUserMessage(ok)
  \/ \E o \in SdkOutcomes : ChatDeployReturn(o)
  \/ \E ok \in BOOLEAN : LoadHistory(ok)
  \/ \E e \in NetworkErrors : Step1NetworkError(e)
  \/ \E d \in DeltaStreams, b \in BOOLEAN, e \in NetworkErrors : Step1Ok(d, b, e)
  \/ \E st \in Statuses : Step1Unexpected(st)
  \/ \E body \in PaymentBodies : Step1PaymentRequired(body)
  \/ \E ok \in BOOLEAN : SignReturn(ok)
  \/ \E e \in NetworkErrors : Step2NetworkError(e)
  \/ \E d \in DeltaStreams, b \in BOOLEAN, e \in NetworkErrors : Step2Ok(d, b, e)
  \/ \E st \in Statuses, body \in RejectBodies : Step2Rejected(st, body)
  \/ \E ok \in BOOLEAN : StoreAssistant(ok)
  \/ \E ok \in BOOLEAN : StoreFallback(ok)
  \/ \E ok \in BOOLEAN : StoreLaunch(ok)
  \/ \E ok \in BOOLEAN : StoreErrorMessage(ok)
  \/ \E n \in {Undefined, "Foo"}, sy \in {Undefined, "FOO"}, w \in WalletInputs :
        DeployRequest(n, sy, w)
  \/ \E o \in SdkOutcomes : ApiDeployReturn(o)
  \/ \E c \in confirmations : ConfirmationSettles(c)
  \/ \E body \in LaunchBodies : LaunchRequest(body)
  \/ \E ok \in BOOLEAN : LaunchStore(ok)
  \/ LaunchList

Spec == Init /\ [][Next]_vars

\* ------------------------------------------------------------------------
\* Chat turns of two sessions while their histories are read and cleared
\* ------------------------------------------------------------------------

HistorySessions == {"s1", "s2"}

\* the completion stream of these turns
HistoryStreams == {<<"Hi">>}

NextHistory ==
  \/ \E s \in HistorySessions : ChatRequest("gm", s, Undefined)
  \/ \E ok \in BOOLEAN : StoreUserMessage(ok)
  \/ \E ok \in BOOLEAN : LoadHistory(ok)
  \/ \E e \in NetworkErrors : Step1NetworkError(e)
  \/ \E d \in HistoryStreams, b \in BOOLEAN, e \in NetworkErrors : Step1Ok(d, b, e)
  \/ \E ok \in BOOLEAN : StoreAssistant(ok)
  \/ \E ok \in BOOLEAN : StoreFallback(ok)
  \/ \E ok \in BOOLEAN : StoreErrorMessage(ok)
  \/ \E s \in HistorySessions, ok \in BOOLEAN : GetHistory(s, ok)
  \/ \E s \in HistorySessions, ok \in BOOLEAN : ClearHistory(s, ok)

SpecHistory == Init /\ [][NextHistory]_vars

\* ------------------------------------------------------------------------
\* deployTokenViaSDK called on its own, with any parameter record
\* ------------------------------------------------------------------------

\* parameter records with and without the required fields
DirectParams ==
  {DeployParams(n, s, w, Undefined, Undefined, d, i) :
     n \in {Undefined, "", "Foo"}, s \in {Undefined, "FOO"},
     w \in {Undefined, ShortWallet, ValidWallet},
     d \in {Undefined, "A token"}, i \in {Undefined, "ipfs://img"}}

\* the call: the two checks, then clanker.deploy
DirectCall(p) ==
  /\ Quiet
  /\ turns' = turns + 1
  /\ route' = "direct"
  /\ dispatch' = [called |-> TRUE, params |-> p, result |-> DeployPrecheck(p)]
  /\ sdkCalls' = IF DeployPrecheck(p) = NoResult THEN <<SdkDeployCall(p)>> ELSE <<>>
  /\ pc' = IF DeployPrecheck(p) = NoResult THEN "await_sdk" ELSE "done"
  /\ UNCHANGED <<privateKey, prevOutcome, req, res, deployParams, fullContent>>
  /\ UNCHANGED storeVars
  /\ UNCHANGED relayVars
  /\ UNCHANGED sideVars

\* clanker.deploy settles: the result of the call
DirectReturn(o) ==
  /\ route = "direct"
  /\ pc = "await_sdk"
  /\ dispatch' = [dispatch EXCEPT !.result = DeployResult(o)]
  /\ pc' = "done"
  /\ confirmations' = StartConfirmation(o)
  /\ UNCHANGED <<privateKey, turns, prevOutcome, route, req, res, deployParams, fullContent,
                 sdkCalls>>
  /\ UNCHANGED storeVars
  /\ UNCHANGED relayVars
  /\ UNCHANGED walletVars
  /\ UNCHANGED <<lastApi, cleared, call>>

NextDispatch ==
  \/ \E p \in DirectParams : DirectCall(p)
  \/ \E o \in SdkOutcomes : DirectReturn(o)
  \/ \E c \in confirmations : ConfirmationSettles(c)

SpecDispatch == Init /\ [][NextDispatch]_vars

\* ------------------------------------------------------------------------
\* Properties of the inference relay
\* ------------------------------------------------------------------------

\* C1: in one chat turn at most two requests go to the inference endpoint;
\* a second request exists only when the first was answered 402 and a payment
\* credential was signed, which the second request carries; there is never a
\* third request, whatever the status of the second
C1_AtMostTwoRequests ==
  /\ Len(inference) <= 2
  /\ Len(inference) = 2 =>
       /\ step1 = 402
       /\ pc # "await_sign"
       /\ inference[2].payment = paymentHeader
       /\ paymentHeader.signer = AgentAddress
  /\ step2 # 0 => Len(inference) = 2

\* a turn that ended after its paid request was refused: two requests, no more
C1_Witness ==
  /\ Len(inference) = 2
  /\ step2 = 500
  /\ failure = "status"
  /\ pc = "done"

\* C2: after a 402 with a non-empty accepts list the resent request has the
\* body of the first request and carries a credential signed for accepts[0],
\* every field of it unchanged but the network: eip155:8453 becomes base, an
\* identifier the table does not know stays as it is, an absent one becomes ""
C2_ResendForFirstOption ==
  Len(inference) = 2 =>
    LET first == paymentRequired.accepts[1]
        signed == inference[2].payment.requirements
    IN /\ inference[2].body = inference[1].body
       /\ inference[2].url = inference[1].url
       /\ inference[2].payment.x402Version = paymentRequired.x402Version
       /\ signed.scheme = first.scheme
       /\ signed.maxAmountRequired = first.maxAmountRequired
       /\ signed.payTo = first.payTo
       /\ signed.asset = first.asset
       /\ first.network = "eip155:8453" => signed.network = "base"
       /\ first.network = "eip155:1" => signed.network = "eip155:1"
       /\ first.network = Undefined => signed.network = ""

\* a resend after a 402 that offers two options, the first with an identifier
\* the table does not know
C2_Witness ==
  /\ Len(inference) = 2
  /\ Len(paymentRequired.accepts) = 2
  /\ paymentRequired.accepts[1].network = "eip155:1"
  /\ inference[2].payment.requirements.network = "eip155:1"

\* C3: the first inference request of every turn carries no payment
\* credential, however the earlier turns ended
C3_FirstRequestUnpaid ==
  inference # <<>> => inference[1].payment = Undefined

\* the second turn sends its first request after a turn whose payment was
\* accepted
C3_Witness ==
  /\ turns = 2
  /\ prevOutcome = "paid"
  /\ inference # <<>>
  /\ inference[1].payment = Undefined

\* C4: the tag onError receives belongs to the kind of the failure and to no
\* other kind: missing key, signing error, non-success status, malformed
\* payment-required body and network error never share a tag
C4_DistinctTags ==
  failure # "none" =>
    /\ failure \in FailureKinds
    /\ errCode \in TagsOfKind(failure)
    /\ \A k \in FailureKinds \ {failure} : errCode \notin TagsOfKind(k)

\* a payment-required body whose first option is null fails in the catch of
\* callConwayAI, next to the network errors, with a tag of its own
C4_Witness ==
  /\ failure = "malformed"
  /\ step1 = 402
  /\ errCode = NullReadError

\* C5: in a chat turn whose relay failed, at whatever step, the response
\* streams the fallback answer for the message and the tag as content and then
\* the done event, and the answer is not empty
C5_FallbackThenDone ==
  (route = "chat" /\ failure # "none") =>
    LET n == Len(res.events)
    IN /\ n >= 2
       /\ res.events[n] = DoneEvent
       /\ res.events[n - 1] = ContentEvent(Fallback(req.message, errCode))
       /\ Truthy(Fallback(req.message, errCode))
       /\ res.ended
       /\ res.status = 200

\* the stream of a 200 response breaks after a content delta reached the
\* caller: the fallback answer and the done event follow the delta
C5_Witness ==
  /\ route = "chat"
  /\ failure = "network"
  /\ step1 = 200
  /\ Len(res.events) = 3
  /\ res.events[1] = ContentEvent("Hi")
  /\ res.events[3] = DoneEvent

\* C6: without a usable signing key a chat turn sends nothing to the inference
\* endpoint; once it has passed the deploy check it fails with the tag
\* agent_wallet_missing and the response carries the canned topic the words of
\* the message select, the DeFi topic for "What is DeFi?"
C6_NoKeyFallback ==
  (route = "chat" /\ privateKey # "valid") =>
    /\ inference = <<>>
    /\ failure \in {"none", "no_key"}
    /\ failure = "no_key" =>
         /\ errCode = "agent_wallet_missing"
         /\ \E i \in 1..Len(res.events) :
              res.events[i] = ContentEvent(Fallback(req.message, "agent_wallet_missing"))
         /\ req.message = "What is DeFi?" =>
              \E i \in 1..Len(res.events) : res.events[i] = ContentEvent("answer:defi")
    /\ (pc = "done" /\ res.status = 200 /\ dbFailures = 0
          /\ (\/ deployParams = NullParams
              \/ ~Truthy(deployParams.name)
              \/ ~Truthy(deployParams.symbol))) =>
         failure = "no_key"

\* "What is DeFi?" asked of a server without a key: the turn is over, no
\* request was sent and the DeFi topic was streamed
C6_Witness ==
  /\ route = "chat"
  /\ privateKey = "absent"
  /\ req.message = "What is DeFi?"
  /\ pc = "done"
  /\ failure = "no_key"
  /\ inference = <<>>
  /\ res.events = <<ContentEvent("answer:defi"), DoneEvent>>

\* ------------------------------------------------------------------------
\* Properties of the deploy flow
\* ------------------------------------------------------------------------

\* C7 as stated: whenever parseDeployMessage returns a parameter set the turn
\* makes no inference request
C7_AnyIntentDeploys ==
  (route = "chat" /\ deployParams # NullParams) => inference = <<>>

\* C7: the turn runs the deploy flow, and makes no inference request, exactly
\* when the parse result has both a name and a symbol; a parse result without
\* them, or none at all, has the conversation forwarded to callConwayAI
C7_DeployNeedsNameAndSymbol ==
  (route = "chat" /\ res.status = 200) =>
    LET p == Parsed(req.message)
        both == p # NullParams /\ Truthy(p.name) /\ Truthy(p.symbol)
    IN /\ both => (inference = <<>> /\ failure = "none")
       /\ dispatch.called => both
       /\ (inference # <<>> \/ failure # "none") => ~both
       /\ (deployParams = p /\ both /\ dbFailures = 0) =>
            (res.events # <<>> /\ res.events[1] \in
               {ContentEvent(AskWallet(p)),
                ContentEvent(Preview(p, WalletToUse(p, req.userWallet)))})
       /\ (pc = "done" /\ dbFailures = 0 /\ ~both) =>
            (inference # <<>> \/ failure = "no_key")

\* a message with a deploy keyword and a name but no symbol: the parse result
\* is not null and the conversation goes to the inference endpoint
C7_Witness ==
  /\ route = "chat"
  /\ deployParams # NullParams
  /\ deployParams.name = "foo"
  /\ deployParams.symbol = Undefined
  /\ Len(inference) = 1

\* C8 as stated: the wallet deployTokenViaSDK is called with starts with 0x
\* and is 42 characters long
C8_WalletValidated ==
  dispatch.called =>
    /\ StartsWith(dispatch.params.wallet, "0x")
    /\ Len(dispatch.params.wallet) = 42

\* C9: deployTokenViaSDK calls clanker.deploy at most once; not at all without
\* a usable key or without name, symbol or wallet, and then its result is a
\* failure with a message; when the SDK reports an error or throws the result
\* is a failure with a message and no further call is made
C9_DispatchReportsFailure ==
  /\ [](dispatch.called =>
          /\ Len(sdkCalls) <= 1
          /\ (\/ privateKey # "valid"
              \/ ~Truthy(dispatch.params.name)
              \/ ~Truthy(dispatch.params.symbol)
              \/ ~Truthy(dispatch.params.wallet)) =>
               /\ sdkCalls = <<>>
               /\ pc = "done"
               /\ dispatch.result.success = FALSE
               /\ Truthy(dispatch.result.error)
          /\ pc = "done" =>
               /\ dispatch.result.success \in BOOLEAN
               /\ ~dispatch.result.success => Truthy(dispatch.result.error)
               /\ dispatch.result.success => (Len(sdkCalls) = 1 /\ Truthy(dispatch.result.txHash)))
  /\ [][\A o \in SdkOutcomes :
          (DirectReturn(o) /\ o.kind # "tx") =>
            /\ dispatch'.result.success = FALSE
            /\ Truthy(dispatch'.result.error)
            /\ sdkCalls' = sdkCalls
            /\ pc' = "done"]_vars

\* a call without a symbol under a usable key: no SDK call, a failure result
C9_Witness ==
  /\ route = "direct"
  /\ privateKey = "valid"
  /\ dispatch.called
  /\ dispatch.params.name = "Foo"
  /\ dispatch.params.symbol = Undefined
  /\ dispatch.params.wallet = ValidWallet
  /\ sdkCalls = <<>>
  /\ dispatch.result = DeployFailure("Name, symbol, and wallet address are required.")

\* C10: every clanker.deploy call carries two reward recipients, the supplied
\* wallet with 9000 basis points and the agent wallet with 1000, together
\* 10000, whatever the other parameters are
C10_FeeSplit ==
  \A i \in 1..Len(sdkCalls) :
    LET r == sdkCalls[i].recipients
    IN /\ Len(r) = 2
       /\ r[1].recipient = dispatch.params.wallet
       /\ r[1].admin = dispatch.params.wallet
       /\ r[1].bps = 9000
       /\ r[2].recipient = AGENT_WALLET_ADDRESS
       /\ r[2].admin = AGENT_WALLET_ADDRESS
       /\ r[2].bps = 1000
       /\ r[1].bps + r[2].bps = 10000

\* a call with a description and an image for a short wallet reached the SDK
C10_Witness ==
  /\ route = "direct"
  /\ Len(sdkCalls) = 1
  /\ dispatch.params.wallet = ShortWallet
  /\ dispatch.params.description = "A token"
  /\ sdkCalls[1].image = "ipfs://img"
  /\ sdkCalls[1].recipients[1].recipient = ShortWallet

\* ------------------------------------------------------------------------
\* Properties of the confirmation, the launch records and the deploy turn
\* ------------------------------------------------------------------------

\* a step in which a confirmation settles
SettleStep ==
  \E c \in confirmations :
    /\ ~c.settled
    /\ confirmations' = (confirmations \ {c}) \cup {[c EXCEPT !.settled = TRUE]}

\* C11: when clanker.deploy returned a transaction, deployTokenViaSDK has
\* returned success with its hash and the caller has its answer whether the
\* confirmation is still running, has succeeded or has failed; a step in which
\* a confirmation settles changes neither the result, nor the response, nor a
\* stored or pending record
C11_ConfirmationDiscarded ==
  /\ [](\A c \in confirmations :
          c.turn = turns =>
            /\ dispatch.called
            /\ dispatch.result = DeploySuccess(c.txHash)
            /\ route = "deploy" => res = JsonResponse(200, c.txHash)
            /\ route = "chat" =>
                 /\ Len(res.events) = 3
                 /\ res.events[2] = ContentEvent("\n\n" \o SuccessBlock(c.txHash))
                 /\ res.events[3] = DoneEvent)
  /\ [][SettleStep =>
          UNCHANGED <<dispatch, res, pc, chatMessages, tokenLaunches, dbPending,
                      trackedWallets>>]_vars

\* the confirmation of the first deployment has failed after its launch record
\* was stored; the second deployment was answered while its confirmation runs
C11_Witness ==
  /\ route = "deploy"
  /\ pc = "done"
  /\ res.status = 200
  /\ Len(tokenLaunches) = 2
  /\ \E c1, c2 \in confirmations :
       /\ c1.turn = 1 /\ c1.settled /\ c1.receipt = "failed"
       /\ c2.turn = turns /\ turns = 2 /\ ~c2.settled

\* C12 as stated: every stored launch carries the hash of a transaction that
\* a deployment call returned
C12_LaunchOnlyAfterDeploy ==
  \A i \in 1..Len(tokenLaunches) :
    \E c \in confirmations : c.txHash = tokenLaunches[i].txHash

\* the launch insert a handler has sent belongs to a deployment that succeeded
LaunchFollowsSuccess(q) ==
  /\ dispatch.called
  /\ dispatch.result = DeploySuccess(q.row.txHash)
  /\ q.row = LaunchRow(dispatch.params.name, dispatch.params.symbol, dispatch.params.wallet,
                       dispatch.result.txHash)
  /\ \E c \in confirmations : c.turn = turns /\ c.txHash = q.row.txHash

\* C12: the two deploy paths send the insert of a launch record in the step in
\* which deployTokenViaSDK returns a transaction hash, and only then: a failed
\* deployment sends none; the table grows only by the record of such an insert
\* or of an insert of POST /api/token-launches, which needs no deployment
C12_LaunchAfterDeployOrPost ==
  /\ [](\A q \in dbPending : q.cont = "launch" => LaunchFollowsSuccess(q))
  /\ [][(/\ route \in {"chat", "deploy"}
         /\ dispatch' # dispatch
         /\ dispatch'.called
         /\ dispatch'.result # NoResult) =>
           IF dispatch'.result.success
           THEN \E q \in dbPending' : q.cont = "launch" /\ q \notin dbPending
           ELSE \A q \in dbPending' : q.cont # "launch"]_vars
  /\ [][tokenLaunches' # tokenLaunches =>
          \E q \in dbPending :
            /\ q.cont \in {"launch", "post"}
            /\ q \notin dbPending'
            /\ tokenLaunches' = Append(tokenLaunches, q.row)
            /\ q.cont = "launch" => LaunchFollowsSuccess(q)]_vars

\* after a deployment whose launch record was stored, a deployment that failed
\* has been answered and no insert was sent for it
C12_Witness ==
  /\ turns = 2
  /\ route = "deploy"
  /\ pc = "done"
  /\ dispatch.called
  /\ dispatch.result = DeployFailure("execution reverted")
  /\ dbPending = {}
  /\ Len(tokenLaunches) = 1
  /\ tokenLaunches[1].txHash = "0xtx"

\* C13: no step removes or changes a stored launch: the table after a step
\* begins with the table before it, every column of every row as inserted
C13_LaunchesOnlyGrow ==
  [][/\ Len(tokenLaunches') >= Len(tokenLaunches)
     /\ \A i \in 1..Len(tokenLaunches) : tokenLaunches'[i] = tokenLaunches[i]]_vars

\* a second launch with the hash of the first was stored for another wallet;
\* the first is as inserted, its token address null
C13_Witness ==
  /\ Len(tokenLaunches) = 2
  /\ tokenLaunches[1].txHash = tokenLaunches[2].txHash
  /\ tokenLaunches[1].deployerWallet # tokenLaunches[2].deployerWallet
  /\ tokenLaunches[1].tokenAddress = Undefined

\* the chat turn in flight is a deploy turn with name, symbol and a wallet the
\* handler accepts
AcceptedDeployTurn ==
  /\ route = "chat"
  /\ deployParams # NullParams
  /\ Truthy(deployParams.name)
  /\ Truthy(deployParams.symbol)
  /\ StartsWith(WalletToUse(deployParams, req.userWallet), "0x")

\* C14: in such a turn the first event is the preview, which names the token
\* and the 90/10 fee split, and it is on the stream when deployTokenViaSDK is
\* called; while the SDK call runs nothing else is streamed; afterwards the
\* stream is the preview, then the success block with the transaction hash if
\* the result is a success and the failure block with the error message if it
\* is not, then the done event, and nothing more
C14_PreviewBlockDone ==
  AcceptedDeployTurn =>
    LET preview == Preview(deployParams, WalletToUse(deployParams, req.userWallet))
    IN /\ dispatch.called
       /\ Includes(preview, "Name: " \o deployParams.name)
       /\ Includes(preview, "Symbol: " \o deployParams.symbol)
       /\ Includes(preview, "Fee Split: 90% you, 10% ConwayPad")
       /\ res.events[1] = ContentEvent(preview)
       /\ pc = "await_sdk" => (Len(res.events) = 1 /\ ~res.ended /\ Len(sdkCalls) = 1)
       /\ pc # "await_sdk" =>
            /\ Len(res.events) = 3
            /\ res.ended
            /\ res.events[3] = DoneEvent
            /\ IF dispatch.result.success
               THEN /\ res.events[2] = ContentEvent("\n\n" \o SuccessBlock(dispatch.result.txHash))
                    /\ Includes(res.events[2].content, "TX Hash: " \o dispatch.result.txHash)
               ELSE /\ res.events[2] = ContentEvent(FailBlock(dispatch.result.error))
                    /\ Includes(res.events[2].content, "Error: " \o dispatch.result.error)

\* the SDK threw in a deploy turn for Foo/FOO: preview, failure block with the
\* message of the exception, done
C14_Witness ==
  /\ AcceptedDeployTurn
  /\ deployParams.name = "Foo"
  /\ deployParams.wallet = ValidWallet
  /\ Len(sdkCalls) = 1
  /\ pc = "done"
  /\ Len(res.events) = 3
  /\ res.events[2] = ContentEvent(FailBlock("insufficient funds for gas"))
  /\ res.events[3] = DoneEvent

\* ------------------------------------------------------------------------
\* Properties of the chat history
\* ------------------------------------------------------------------------

\* C15 as stated: a GET answered after a completed DELETE of the session, with
\* no chat request of the session accepted since, returns the empty list
C15_ClearThenEmpty ==
  (/\ lastApi.route = "history"
   /\ lastApi.status = 200
   /\ \E e \in cleared : e.sessionId = lastApi.sessionId) =>
    lastApi.body = <<>>

\* C15: the GET returns the empty list when no chat turn of the session was in
\* flight when the DELETE ran
C15_ClearThenEmptyWhenQuiet ==
  (/\ lastApi.route = "history"
   /\ lastApi.status = 200
   /\ \E e \in cleared : e.sessionId = lastApi.sessionId /\ ~e.inFlight) =>
    lastApi.body = <<>>

\* a turn of s1 was answered and stored, then its history was cleared and
\* read, empty; the rows of s2 are still stored
C15_Witness ==
  /\ turns = 2
  /\ route = "chat"
  /\ req.sessionId = "s1"
  /\ pc = "done"
  /\ fullContent = "Hi"
  /\ dbFailures = 0
  /\ cleared = {[sessionId |-> "s1", inFlight |-> FALSE]}
  /\ lastApi.route = "history"
  /\ lastApi.sessionId = "s1"
  /\ lastApi.body = <<>>
  /\ Len(chatMessages) = 2
  /\ \A i \in 1..Len(chatMessages) : chatMessages[i].sessionId = "s2"

\* ------------------------------------------------------------------------
\* Properties of the tracked wallets
\* ------------------------------------------------------------------------

\* the stored wallets with the address
RowsOf(rows, address) == {i \in 1..Len(rows) : rows[i].walletAddress = address}

\* C16: no two stored wallets have the same address, and neither has a list
\* the GET returned; an insert of an address that is stored fails with a
\* uniqueness violation and leaves the table as it is, with one row for the
\* address, whatever inserts of that address are still to run
C16_UniqueAddress ==
  /\ [](/\ \A i, j \in 1..Len(trackedWallets) :
             trackedWallets[i].walletAddress = trackedWallets[j].walletAddress => i = j
        /\ lastApi.route = "wallet-list" =>
             \A i, j \in 1..Len(lastApi.body) :
               lastApi.body[i].walletAddress = lastApi.body[j].walletAddress => i = j)
  /\ [][\A b \in WalletBodies :
          (AddWalletStore(b) /\ RowsOf(trackedWallets, b.walletAddress) # {}) =>
            /\ lastApi'.status = 0
            /\ lastApi'.error = "unique_violation"
            /\ trackedWallets' = trackedWallets
            /\ Cardinality(RowsOf(trackedWallets', b.walletAddress)) = 1]_vars

\* three inserts of one address were sent together: the first is stored, the
\* second has failed with the violation, the third has not run yet
C16_Witness ==
  /\ Len(trackedWallets) = 1
  /\ trackedWallets[1].walletAddress = MixedCaseWallet
  /\ lastApi.route = "wallet-add"
  /\ lastApi.status = 0
  /\ lastApi.error = "unique_violation"
  /\ lastApi.body.walletAddress = MixedCaseWallet
  /\ walletSeq = 2
  /\ BagCardinality(walletPending) = 1
  /\ \E b \in WalletBodies : BagIn(b, walletPending) /\ b.walletAddress = MixedCaseWallet

\* ------------------------------------------------------------------------
\* Functions applied on their own
\* ------------------------------------------------------------------------

\* "Name: Foo Symbol: BAR Wallet: 0x<40 hex>", the fields separated by sep
PatternText(name, symbol, wallet, sep) ==
  "Name: " \o name \o sep \o "Symbol: " \o symbol \o sep \o "Wallet: " \o wallet

PatternPrefixes == {"", "Deploy token\n", "please launch: ",
                    "deploy name Zed symbol ZZ then "}
PatternNames == {"Foo", "Foo Bar 2", "Launchpad", "Foo x Bar", "My wallet"}
PatternSymbols == {"BAR", "AB", "bar", "BAR1"}
PatternWallets == {ValidWallet, MixedCaseWallet}
PatternSeps == {" ", "\n"}
PatternSuffixes == {"", " Website: foo.io"}

PatternTexts ==
  {pre \o PatternText(n, y, w, sep) \o suf :
     pre \in PatternPrefixes, n \in PatternNames, y \in PatternSymbols,
     w \in PatternWallets, sep \in PatternSeps, suf \in PatternSuffixes}

\* texts with and without a keyword, a name, a symbol
LooseTexts == {
  "", "gm", "deploy it", "DEPLOY", "launch MOON", "deploy 123",
  "deploy name:  symbol", "deploy name:  symbol, now", "create token Foo symbol", "Create Token Moon Dog ticker md",
  "Name: Foo Symbol: BAR", "token Foo symbol FOO", "name: Foo symbol: BAR deploy",
  "relaunch name: a, b", "create  token name: Foo", "how to deploy? name: ;"
}

ParseTexts == ChatTexts \cup LooseTexts \cup PatternTexts

\* the applications of parseDeployMessage that are made
ParseCalls == {[fn |-> "parseDeployMessage", arg |-> m, done |-> FALSE] : m \in ParseTexts}

\* parseDeployMessage(text) returns
ParseReturn ==
  /\ call.fn = "parseDeployMessage"
  /\ ~call.done
  /\ call' = [fn |-> call.fn, arg |-> call.arg, done |-> TRUE,
              ret |-> parseDeployMessage(call.arg)]
  /\ UNCHANGED <<privateKey, turns, prevOutcome, route, pc, req, res, deployParams,
                 fullContent>>
  /\ UNCHANGED storeVars
  /\ UNCHANGED relayVars
  /\ UNCHANGED deployVars
  /\ UNCHANGED walletVars
  /\ UNCHANGED <<confirmations, cleared, lastApi>>

InitParse ==
  /\ privateKey = "absent"
  /\ InitIdle
  /\ call \in ParseCalls

SpecParse == InitParse /\ [][ParseReturn]_vars

\* JavaScript values of a loosely typed record
JsUndefined == [type |-> "undefined"]
JsNull == [type |-> "null"]
JsNum(x) == [type |-> "number", n |-> x]
JsStr(x) == [type |-> "string", s |-> x]
JsObj(fields) == [type |-> "object", o |-> fields]
NoFields == <<>>

Nullish(x) == x.type \in {"undefined", "null"}

JsTruthy(x) ==
  CASE Nullish(x) -> FALSE
    [] x.type = "number" -> x.n # 0
    [] x.type = "string" -> x.s # ""
    [] OTHER -> TRUE

\* a || b
Or2(a, b) == IF JsTruthy(a) THEN a ELSE b

\* x.f of a value that is neither null nor undefined
Get(x, f) == IF x.type = "object" /\ f \in DOMAIN x.o THEN x.o[f] ELSE JsUndefined

\* x?.f
OptGet(x, f) == IF Nullish(x) THEN JsUndefined ELSE Get(x, f)

\* reading a property of null or undefined
Threw == [threw |-> "TypeError"]

BaseChainId == 8453

\* const market = t.related?.market || {}
MarketOf(token) == Or2(OptGet(Get(token, "related"), "market"), JsObj(NoFields))

\* seeded fault: volume24h is market.volume24h as it is
NormalizedFieldsRawVolume(token, market) ==
  [address |-> Or2(Get(token, "contract_address"), Or2(Get(token, "address"), JsStr(""))),
   name |-> Or2(Get(token, "name"), JsStr("Unknown")),
   symbol |-> Or2(Get(token, "symbol"), JsStr("?")),
   deployDate |-> Or2(Get(token, "deployed_at"),
                      Or2(Get(token, "created_at"), Or2(Get(token, "deployDate"), JsStr("")))),
   deployerWallet |-> Or2(Get(token, "msg_sender"),
                          Or2(Get(token, "deployer"),
                              Or2(Get(token, "deployerWallet"), JsStr("")))),
   imgUrl |-> Or2(Get(token, "img_url"), Or2(Get(token, "image"), JsStr(""))),
   marketCap |-> Or2(Get(market, "marketCap"), Or2(Get(token, "market_cap"), JsNum(0))),
   price |-> Or2(Get(market, "price"), Or2(Get(token, "price"), JsNum(0))),
   priceChange24h |-> Or2(Get(market, "priceChange24h"), JsNum(0)),
   volume24h |-> Get(market, "volume24h"),
   chainId |-> Or2(Get(token, "chain_id"), JsNum(BaseChainId)),
   platform |-> Or2(OptGet(Get(token, "social_context"), "platform"), JsStr(""))]

\* the properties written after the spread
NormalizedFields(token, market) ==
  [address |-> Or2(Get(token, "contract_address"), Or2(Get(token, "address"), JsStr(""))),
   name |-> Or2(Get(token, "name"), JsStr("Unknown")),
   symbol |-> Or2(Get(token, "symbol"), JsStr("?")),
   deployDate |-> Or2(Get(token, "deployed_at"),
                      Or2(Get(token, "created_at"), Or2(Get(token, "deployDate"), JsStr("")))),
   deployerWallet |-> Or2(Get(token, "msg_sender"),
                          Or2(Get(token, "deployer"),
                              Or2(Get(token, "deployerWallet"), JsStr("")))),
   imgUrl |-> Or2(Get(token, "img_url"), Or2(Get(token, "image"), JsStr(""))),
   marketCap |-> Or2(Get(market, "marketCap"), Or2(Get(token, "market_cap"), JsNum(0))),
   price |-> Or2(Get(market, "price"), Or2(Get(token, "price"), JsNum(0))),
   priceChange24h |-> Or2(Get(market, "priceChange24h"), JsNum(0)),
   volume24h |-> Or2(Get(market, "volume24h"), JsNum(0)),
   chainId |-> Or2(Get(token, "chain_id"), JsNum(BaseChainId)),
   platform |-> Or2(OptGet(Get(token, "social_context"), "platform"), JsStr(""))]

\* { ...spread, ...fields }
Spread(spread, fields) ==
  [f \in DOMAIN spread \cup DOMAIN fields |->
     IF f \in DOMAIN fields THEN fields[f] ELSE spread[f]]

\* normalizeToken(t): t.related of null or undefined throws
normalizeToken(token) ==
  IF Nullish(token) THEN Threw
  ELSE JsObj(Spread(IF token.type = "object" THEN token.o ELSE NoFields,
                    NormalizedFields(token, MarketOf(token))))

\* properties that name the token and its deployment: none, the first
\* property read for every field, the second, the third, and values that are
\* present and falsy
TokenIdentities == {
  NoFields,
  [contract_address |-> JsStr(ValidWallet), name |-> JsStr("Foo"), symbol |-> JsStr("FOO"),
   deployed_at |-> JsStr("2025-01-01"), msg_sender |-> JsStr(OtherWallet),
   img_url |-> JsStr("ipfs://a"), chain_id |-> JsNum(1)],
  [contract_address |-> JsNull, address |-> JsStr(ValidWallet), name |-> JsNum(7),
   created_at |-> JsStr("2025-02-02"), deployer |-> JsStr(OtherWallet),
   image |-> JsStr("ipfs://b")],
  [address |-> JsStr(""), deployDate |-> JsStr("2025-03-03"),
   deployerWallet |-> JsStr(OtherWallet), extra |-> JsStr("kept")],
  [name |-> JsStr(""), symbol |-> JsNull, chain_id |-> JsNum(0), img_url |-> JsUndefined]
}

\* values of the related property
TokenRelated == {
  NoFields,
  [related |-> JsNull],
  [related |-> JsObj(NoFields)],
  [related |-> JsObj([market |-> JsNull])],
  [related |-> JsObj([market |-> JsNum(5)])],
  [related |-> JsObj([market |-> JsObj([marketCap |-> JsNum(1000), price |-> JsNum(2),
                                        priceChange24h |-> JsNum(-3),
                                        volume24h |-> JsNum(40)])])],
  [related |-> JsObj([market |-> JsObj([marketCap |-> JsNum(0), price |-> JsStr("0.5")])])]
}

TokenFlatPrices == {NoFields, [market_cap |-> JsNum(900), price |-> JsNum(3)]}

TokenSocial == {
  NoFields,
  [social_context |-> JsNull],
  [social_context |-> JsObj(NoFields)],
  [social_context |-> JsObj([platform |-> JsStr("farcaster")])]
}

\* records of the token registry, and what a list may hold in their place
TokenInputs ==
  {JsObj(a @@ b @@ c @@ d) : a \in TokenIdentities, b \in TokenRelated,
                             c \in TokenFlatPrices, d \in TokenSocial}
    \cup {JsNull, JsUndefined, JsStr("0xabc")}

NormalizeCalls == {[fn |-> "normalizeToken", arg |-> x, done |-> FALSE] : x \in TokenInputs}

\* normalizeToken(t) returns or throws
NormalizeReturn ==
  /\ call.fn = "normalizeToken"
  /\ ~call.done
  /\ call' = [fn |-> call.fn, arg |-> call.arg, done |-> TRUE,
              ret |-> normalizeToken(call.arg)]
  /\ UNCHANGED <<privateKey, turns, prevOutcome, route, pc, req, res, deployParams,
                 fullContent>>
  /\ UNCHANGED storeVars
  /\ UNCHANGED relayVars
  /\ UNCHANGED deployVars
  /\ UNCHANGED walletVars
  /\ UNCHANGED <<confirmations, cleared, lastApi>>

InitNormalize ==
  /\ privateKey = "absent"
  /\ InitIdle
  /\ call \in NormalizeCalls

SpecNormalize == InitNormalize /\ [][NormalizeReturn]_vars

\* pieces of a message: words of several topics, a word inside another word,
\* an address in upper case, words of no topic
FallbackPieces == {"", "Hello", "gm", "deploy", "coffee", "What is DeFi?", "my WALLET",
                   "0X" \o "ABCDEF1111111111111111111111111111111111", "price", "HELP",
                   "tokenomics", "thanks"}

FallbackMessages == {Trim(a \o " " \o b) : a, b \in FallbackPieces}

\* errCode of the call: none, and tags of the relay failures
FallbackCodes == {Undefined, WalletMissingTag, SignErrorTag, NoAcceptsTag,
                  CaughtTag("")}

FallbackCalls ==
  {[fn |-> "generateFallbackResponse", arg |-> [message |-> a, errCode |-> e],
    done |-> FALSE] : a \in FallbackMessages, e \in FallbackCodes}

\* generateFallbackResponse(message, errCode) returns
FallbackReturn ==
  /\ call.fn = "generateFallbackResponse"
  /\ ~call.done
  /\ call' = [fn |-> call.fn, arg |-> call.arg, done |-> TRUE,
              ret |-> generateFallbackResponse(call.arg.message, call.arg.errCode)]
  /\ UNCHANGED <<privateKey, turns, prevOutcome, route, pc, req, res, deployParams,
                 fullContent>>
  /\ UNCHANGED storeVars
  /\ UNCHANGED relayVars
  /\ UNCHANGED deployVars
  /\ UNCHANGED walletVars
  /\ UNCHANGED <<confirmations, cleared, lastApi>>

InitFallback ==
  /\ privateKey = "absent"
  /\ InitIdle
  /\ call \in FallbackCalls

SpecFallback == InitFallback /\ [][FallbackReturn]_vars

\* ------------------------------------------------------------------------
\* Properties of parseDeployMessage
\* ------------------------------------------------------------------------

Parsing == call.fn = "parseDeployMessage" /\ call.done

\* C17: the result is null for a text with none of the keywords deploy, launch,
\* create token in any letter case, and for a text from which neither a name
\* nor a symbol is extracted; a result that is not null has a name or a symbol
C17_NullUnlessKeywordAndField ==
  Parsing =>
    /\ ~(\E k \in {"deploy", "launch", "create token"} :
            Includes(toLowerCase(call.arg), k)) => call.ret = NullParams
    /\ (~Truthy(parseName(call.arg)) /\ ~Truthy(parseSymbol(call.arg))) =>
          call.ret = NullParams
    /\ call.ret # NullParams => Truthy(call.ret.name) \/ Truthy(call.ret.symbol)

\* a keyword is present and the name that matched is empty after the trim, no
\* symbol is found: the result is null
C17_Witness ==
  /\ Parsing
  /\ call.arg = "deploy name:  symbol, now"
  /\ parseName(call.arg) = ""
  /\ call.ret = NullParams

\* the text holds the pattern with these fields
HoldsPattern(text, name, symbol, wallet) ==
  \E sep \in PatternSeps : Includes(text, PatternText(name, symbol, wallet, sep))

\* C18 as stated: a text that holds the pattern gives the three fields
C18_PatternExtracted ==
  Parsing =>
    \A n \in PatternNames, y \in PatternSymbols, w \in PatternWallets :
      HoldsPattern(call.arg, n, y, w) =>
        /\ call.ret # NullParams
        /\ call.ret.name = n
        /\ call.ret.symbol = y
        /\ call.ret.wallet = w

\* words of letters and digits with one space between them, none of them "x",
\* none starting with a word that ends the name, no "0x"
PlainName(name) ==
  /\ name # ""
  /\ \A i \in 1..Len(name) : Ch(name, i) \in AlnumSet \cup {" "}
  /\ Ch(name, 1) # " " /\ Ch(name, Len(name)) # " "
  /\ ~Includes(name, "  ")
  /\ ~Includes(toLowerCase(" " \o name \o " "), " x ")
  /\ ~Includes(toLowerCase(name), "0x")
  /\ \A w \in {"symbol", "ticker", "twitter", "website", "wallet", "image", "description"} :
        ~Includes(toLowerCase(" " \o name), " " \o w)

\* two to ten upper-case letters
PlainSymbol(symbol) ==
  /\ Len(symbol) \in 2..10
  /\ \A i \in 1..Len(symbol) : Ch(symbol, i) \in UpperSet

\* what precedes the pattern has no name, symbol or ticker word and no "0x",
\* and ends before a word starts
PlainPrefix(pre) ==
  /\ \A w \in {"name", "symbol", "ticker", "0x"} : ~Includes(toLowerCase(pre), w)
  /\ pre = "" \/ Ch(pre, Len(pre)) \in SpaceSet

\* what follows the pattern starts after the address ended
PlainSuffix(suf) == suf = "" \/ Ch(suf, 1) \in SpaceSet

\* C18: a text with one of the keywords, made of a prefix without field words,
\* the pattern with a plain name and a symbol of upper-case letters, and a
\* suffix, gives the name, the symbol and the address of the pattern
C18_PatternExtractedWithKeyword ==
  Parsing =>
    \A pre \in PatternPrefixes, n \in PatternNames, y \in PatternSymbols,
       w \in PatternWallets, sep \in PatternSeps, suf \in PatternSuffixes :
      (/\ call.arg = pre \o PatternText(n, y, w, sep) \o suf
       /\ IsDeployKeyword(toLowerCase(call.arg))
       /\ PlainPrefix(pre) /\ PlainName(n) /\ PlainSymbol(y) /\ PlainSuffix(suf)) =>
        /\ call.ret # NullParams
        /\ call.ret.name = n
        /\ call.ret.symbol = y
        /\ call.ret.wallet = w

\* the documented request: keyword line, then the three fields line by line
C18_Witness ==
  /\ Parsing
  /\ call.arg = "Deploy token\n" \o PatternText("Foo Bar 2", "AB", MixedCaseWallet, "\n")
  /\ call.ret # NullParams
  /\ call.ret.name = "Foo Bar 2"
  /\ call.ret.symbol = "AB"
  /\ call.ret.wallet = MixedCaseWallet

\* ------------------------------------------------------------------------
\* Properties of normalizeToken
\* ------------------------------------------------------------------------

Normalizing == call.fn = "normalizeToken" /\ call.done

\* the fields of the normalized shape
ShapeFields == {"address", "name", "symbol", "deployDate", "imgUrl", "marketCap", "price",
                "priceChange24h", "volume24h", "chainId"}

\* the values a shape field is read from, in the order they are tried
SourcesOf(f, token) ==
  CASE f = "address" -> <<Get(token, "contract_address"), Get(token, "address")>>
    [] f = "name" -> <<Get(token, "name")>>
    [] f = "symbol" -> <<Get(token, "symbol")>>
    [] f = "deployDate" -> <<Get(token, "deployed_at"), Get(token, "created_at"),
                             Get(token, "deployDate")>>
    [] f = "imgUrl" -> <<Get(token, "img_url"), Get(token, "image")>>
    [] f = "marketCap" -> <<Get(MarketOf(token), "marketCap"), Get(token, "market_cap")>>
    [] f = "price" -> <<Get(MarketOf(token), "price"), Get(token, "price")>>
    [] f = "priceChange24h" -> <<Get(MarketOf(token), "priceChange24h")>>
    [] f = "volume24h" -> <<Get(MarketOf(token), "volume24h")>>
    [] f = "chainId" -> <<Get(token, "chain_id")>>

\* the record gives no value for the field
MissingField(f, token) ==
  \A k \in 1..Len(SourcesOf(f, token)) : Nullish(SourcesOf(f, token)[k])

\* C19 as stated: a record is normalized without a throw, every field of the
\* shape is defined, and a missing field is zero or the empty string
C19_ZeroOrEmptyDefaults ==
  (Normalizing /\ call.arg.type = "object") =>
    /\ call.ret # Threw
    /\ \A f \in ShapeFields :
         /\ f \in DOMAIN call.ret.o
         /\ ~Nullish(call.ret.o[f])
         /\ MissingField(f, call.arg) => call.ret.o[f] \in {JsStr(""), JsNum(0)}

\* the value written for a field the record does not give
DefaultOf(f) ==
  CASE f = "name" -> JsStr("Unknown")
    [] f = "symbol" -> JsStr("?")
    [] f = "chainId" -> JsNum(BaseChainId)
    [] f \in {"address", "deployDate", "imgUrl"} -> JsStr("")
    [] OTHER -> JsNum(0)

\* C19: a record is normalized without a throw, every field of the shape is
\* defined, and a missing field has its default: "Unknown" for the name, "?"
\* for the symbol, 8453 for the chain id, the empty string for the address,
\* the deploy timestamp and the image URL, zero for the four market figures
C19_DefinedDefaults ==
  (Normalizing /\ call.arg.type = "object") =>
    /\ call.ret # Threw
    /\ \A f \in ShapeFields :
         /\ f \in DOMAIN call.ret.o
         /\ ~Nullish(call.ret.o[f])
         /\ MissingField(f, call.arg) => call.ret.o[f] = DefaultOf(f)

\* the record without any property is normalized
C19_Witness ==
  /\ Normalizing
  /\ call.arg = JsObj(NoFields)
  /\ call.ret # Threw
  /\ \A f \in ShapeFields : MissingField(f, call.arg) /\ call.ret.o[f] = DefaultOf(f)

\* ------------------------------------------------------------------------
\* Properties of generateFallbackResponse
\* ------------------------------------------------------------------------

Answering == call.fn = "generateFallbackResponse" /\ call.done

\* the entries of the list that have keywords
KeywordTopics == {i \in 1..Len(FallbackTopics) : Len(FallbackTopics[i].words) > 0}

\* a keyword of entry i occurs in the lower-cased message
KeywordOccurs(i, message) ==
  \E k \in 1..Len(FallbackTopics[i].words) :
    Includes(toLowerCase(message), FallbackTopics[i].words[k])

\* 0x and 40 hexadecimal digits occur in the message, in any letter case
AddressOccurs(message) ==
  \E i \in 1..Len(message) :
    /\ i + 41 <= Len(message)
    /\ Ch(message, i) = "0"
    /\ Ch(message, i + 1) \in {"x", "X"}
    /\ \A k \in (i + 2)..(i + 41) : Ch(message, k) \in HexSet

\* C20 as stated: the answer is that of the first topic a keyword of which
\* occurs in the message, the menu is returned exactly when no keyword and no
\* address occurs, and the result is not empty
C20_FirstKeywordTopicWins ==
  Answering =>
    /\ \A i \in KeywordTopics :
         (/\ KeywordOccurs(i, call.arg.message)
          /\ \A j \in KeywordTopics : j < i => ~KeywordOccurs(j, call.arg.message))
           => call.ret = "answer:" \o FallbackTopics[i].topic
    /\ StartsWith(call.ret, DefaultMenu) <=>
         /\ \A i \in KeywordTopics : ~KeywordOccurs(i, call.arg.message)
         /\ ~AddressOccurs(call.arg.message)
    /\ call.ret # ""

\* place of the address pattern in the list: after tokenomics, before price
AddressEntry == CHOOSE i \in 1..Len(FallbackTopics) : FallbackTopics[i].topic = "address"

\* entry i of the list matches the message
EntryOccurs(i, message) ==
  IF i = AddressEntry THEN AddressOccurs(message) ELSE KeywordOccurs(i, message)

\* C20: the answer is that of the first entry of the list that matches, the
\* address pattern being the entry before price and help; the menu is returned
\* exactly when no entry matches, and the result is not empty
C20_FirstEntryWins ==
  Answering =>
    /\ \A i \in 1..Len(FallbackTopics) :
         (/\ EntryOccurs(i, call.arg.message)
          /\ \A j \in 1..(i - 1) : ~EntryOccurs(j, call.arg.message))
           => /\ StartsWith(call.ret, "answer:" \o FallbackTopics[i].topic)
              /\ i # AddressEntry => call.ret = "answer:" \o FallbackTopics[i].topic
    /\ StartsWith(call.ret, DefaultMenu) <=>
         \A i \in 1..Len(FallbackTopics) : ~EntryOccurs(i, call.arg.message)
    /\ call.ret # ""

\* a question about tokenomics that holds an address: the
\* tokenomics answer is returned
C20_Witness ==
  /\ Answering
  /\ call.arg.message = "tokenomics 0XABCDEF1111111111111111111111111111111111"
  /\ EntryOccurs(AddressEntry, call.arg.message)
  /\ EntryOccurs(AddressEntry - 1, call.arg.message)
  /\ call.ret = "answer:tokenomics"

\* ------------------------------------------------------------------------
\* generateFallbackResponse called again and again in one process
\* ------------------------------------------------------------------------

RepeatedMessages == {"What is DeFi?", "gm", "HELP",
                     "0X" \o "ABCDEF1111111111111111111111111111111111 price"}
RepeatedCodes == {Undefined, WalletMissingTag}

\* the calls made so far, with what each returned
NoCalls == [fn |-> "generateFallbackResponse", log |-> <<>>]

\* seeded fault: the address pattern carries the g flag and is tested with
\* test(), so a match leaves a lastIndex that makes the next test fail
FallbackCallSticky(message, errorCode) ==
  /\ call.fn = "generateFallbackResponse"
  /\ Len(call.log) < MaxFallbackCalls
  /\ LET sticky == /\ Len(call.log) > 0
                   /\ StartsWith(call.log[Len(call.log)].ret, "answer:address")
         q == toLowerCase(message)
         later == {i \in 1..Len(FallbackTopics) :
                     FallbackTopics[i].topic # "address" /\ TopicMatches(q, FallbackTopics[i])}
         ret == IF ~sticky THEN generateFallbackResponse(message, errorCode)
                ELSE IF later # {} THEN TopicAnswer(FallbackTopics[SetMin(later)].topic, q)
                ELSE DefaultMenu \o creditNote(errorCode)
     IN call' = [call EXCEPT !.log = Append(@, [message |-> message, errCode |-> errorCode,
                                                ret |-> ret])]
  /\ UNCHANGED <<privateKey, turns, prevOutcome, route, pc, req, res, deployParams,
                 fullContent>>
  /\ UNCHANGED storeVars
  /\ UNCHANGED relayVars
  /\ UNCHANGED deployVars
  /\ UNCHANGED walletVars
  /\ UNCHANGED <<confirmations, cleared, lastApi>>

\* one more call: the function reads its two arguments and nothing else (its
\* patterns have no g flag, so match() keeps no position between calls)
FallbackCall(message, errorCode) ==
  /\ call.fn = "generateFallbackResponse"
  /\ Len(call.log) < MaxFallbackCalls
  /\ call' = [call EXCEPT !.log = Append(@, [message |-> message, errCode |-> errorCode,
                                             ret |-> generateFallbackResponse(message, errorCode)])]
  /\ UNCHANGED <<privateKey, turns, prevOutcome, route, pc, req, res, deployParams,
                 fullContent>>
  /\ UNCHANGED storeVars
  /\ UNCHANGED relayVars
  /\ UNCHANGED deployVars
  /\ UNCHANGED walletVars
  /\ UNCHANGED <<confirmations, cleared, lastApi>>

InitRepeated ==
  /\ privateKey \in KeyStates
  /\ InitIdle
  /\ call = NoCalls

NextRepeated == \E message \in RepeatedMessages, errorCode \in RepeatedCodes :
                  FallbackCall(message, errorCode)

SpecRepeated == InitRepeated /\ [][NextRepeated]_vars

CLANKER_API == "https://www.clanker.world/api"

\* JSON null, and an array
JsonNull == [null |-> TRUE]
JsArr(items) == [type |-> "array", items |-> items]

\* bodies the registry answers with: the text and, when JSON.parse accepts it,
\* the value it yields
UpstreamBodies == {
  [text |-> "<html>Bad Gateway</html>", json |-> FALSE],
  [text |-> "", json |-> FALSE],
  [text |-> "null", json |-> TRUE, value |-> JsonNull],
  [text |-> "{\"error\":\"rate limited\"}", json |-> TRUE,
   value |-> [error |-> "rate limited"]],
  [text |-> "{\"tokens\":\"none\"}", json |-> TRUE, value |-> [tokens |-> JsStr("none")]],
  [text |-> "{\"tokens\":[null]}", json |-> TRUE,
   value |-> [tokens |-> JsArr(<<JsonNull>>)]],
  [text |-> "{\"tokens\":[{\"admin\":\"0xAbC\"},{\"admin\":\"0xdef\"},{}]}", json |-> TRUE,
   value |-> [tokens |-> JsArr(<<[admin |-> "0xAbC"], [admin |-> "0xdef"],
                                 [admin |-> Undefined]>>)]]
}

UpstreamStatuses == {200, 404, 500}

\* what the fetch of proxyGet comes to: it rejects, the response arrives and
\* reading its text rejects, or the response arrives whole
UpstreamOutcomes ==
  {[fetch |-> "rejected", message |-> "fetch failed"]}
    \cup {[fetch |-> "body_error", status |-> st, message |-> "terminated"] :
            st \in UpstreamStatuses}
    \cup {[fetch |-> "ok", status |-> st, body |-> b] :
            st \in UpstreamStatuses, b \in UpstreamBodies}

\* seeded fault: every upstream status but 200 is reported as 500
proxyGetHidesStatus(upstream) ==
  IF upstream.fetch # "ok" THEN [data |-> [error |-> upstream.message], status |-> 500]
  ELSE IF upstream.status # 200
       THEN [data |-> [error |-> "upstream error"], status |-> 500]
  ELSE IF upstream.body.json THEN [data |-> upstream.body.value, status |-> upstream.status]
  ELSE [data |-> [raw |-> upstream.body.text], status |-> upstream.status]

\* proxyGet(url), given what the fetch comes to
proxyGet(upstream) ==
  IF upstream.fetch # "ok" THEN [data |-> [error |-> upstream.message], status |-> 500]
  ELSE IF upstream.body.json THEN [data |-> upstream.body.value, status |-> upstream.status]
  ELSE [data |-> [raw |-> upstream.body.text], status |-> upstream.status]

\* res.status(status).json(data) of a proxy route
ProxyAnswer(name, url, proxied, upstream) ==
  /\ lastApi' = [route |-> name, url |-> url, status |-> proxied.status,
                 body |-> proxied.data, upstream |-> upstream]
  /\ UNCHANGED <<privateKey, turns, prevOutcome, route, pc, req, res, deployParams,
                 fullContent>>
  /\ UNCHANGED storeVars
  /\ UNCHANGED relayVars
  /\ UNCHANGED deployVars
  /\ UNCHANGED walletVars
  /\ UNCHANGED <<confirmations, cleared, call>>

\* GET /api/conway/tokens
ConwayTokens(limit, cursor, upstream) ==
  ProxyAnswer("conway-tokens",
              CLANKER_API \o "/search-creator?q=" \o AGENT_WALLET_ADDRESS \o "&limit="
                \o (IF Truthy(limit) THEN limit ELSE "20")
                \o (IF Truthy(cursor) THEN "&cursor=" \o cursor ELSE ""),
              proxyGet(upstream), upstream)

\* GET /api/clanker/search-creator
SearchCreator(qs, upstream) ==
  ProxyAnswer("search-creator", CLANKER_API \o "/search-creator?" \o qs,
              proxyGet(upstream), upstream)

\* data?.tokens || []
TokensOf(data) ==
  IF data = JsonNull \/ "tokens" \notin DOMAIN data THEN JsArr(<<>>)
  ELSE IF JsTruthy(data.tokens) THEN data.tokens
  ELSE JsArr(<<>>)

\* the filter throws when tokens is no array or holds a null
FilterThrows(tokens) ==
  \/ tokens.type # "array"
  \/ \E i \in 1..Len(tokens.items) : tokens.items[i] = JsonNull

\* the tokens whose admin is the wallet, letter case apart
AdminTokens(items, adminWallet) ==
  SelectSeq(items, LAMBDA k : toLowerCase(IF Truthy(k.admin) THEN k.admin ELSE "") = adminWallet)

\* GET /api/conway/my-tokens, given what proxyGet returned
MyTokensAnswer(adminWallet, url, proxied, upstream) ==
  IF adminWallet = ""
  THEN ProxyAnswer("my-tokens", Undefined,
                   [status |-> 400, data |-> [error |-> "wallet query param required"]],
                   [fetch |-> "none"])
  ELSE IF proxied.status # 200 THEN ProxyAnswer("my-tokens", url, proxied, upstream)
  ELSE IF FilterThrows(TokensOf(proxied.data))
  THEN ProxyAnswer("my-tokens", url, [status |-> 0, data |-> [unhandled |-> "TypeError"]],
                   upstream)
  ELSE ProxyAnswer("my-tokens", url,
                   [status |-> 200,
                    data |-> [tokens |-> AdminTokens(TokensOf(proxied.data).items, adminWallet),
                              total |-> Len(AdminTokens(TokensOf(proxied.data).items,
                                                        adminWallet))]],
                   upstream)

MyTokens(wallet, upstream) ==
  MyTokensAnswer(toLowerCase(IF Truthy(wallet) THEN wallet ELSE ""),
                 CLANKER_API \o "/search-creator?q=" \o AGENT_WALLET_ADDRESS \o "&limit=100",
                 proxyGet(upstream), upstream)

InitProxy ==
  /\ privateKey \in KeyStates
  /\ InitIdle
  /\ call = NoCall

NextProxy ==
  \/ \E limit \in {Undefined, "5"}, cursor \in {Undefined, "abc"}, u \in UpstreamOutcomes :
       ConwayTokens(limit, cursor, u)
  \/ \E qs \in {"", "q=0xabc&limit=20"}, u \in UpstreamOutcomes : SearchCreator(qs, u)
  \/ \E wallet \in {Undefined, "0xABC", "0xdef"}, u \in UpstreamOutcomes : MyTokens(wallet, u)

SpecProxy == InitProxy /\ [][NextProxy]_vars

\* ------------------------------------------------------------------------
\* Properties of the registry proxy
\* ------------------------------------------------------------------------

\* a proxy route has answered with what proxyGet returned: the two plain
\* routes, and my-tokens when the registry was asked and did not answer 200
ProxiedAnswer ==
  /\ lastApi.route \in {"conway-tokens", "search-creator", "my-tokens"}
  /\ lastApi.upstream.fetch # "none"
  /\ lastApi.route = "my-tokens" =>
       (lastApi.upstream.fetch # "ok" \/ lastApi.upstream.status # 200)

\* C22: the status is the registry's status and the body its JSON value, or
\* the text under raw when the text is no JSON; when the fetch failed the
\* status is 500 and the body the error message; so a 500 that the registry
\* did not send comes from a failed fetch only
C22_StatusPassedThrough ==
  ProxiedAnswer =>
    /\ lastApi.upstream.fetch = "ok" =>
         /\ lastApi.status = lastApi.upstream.status
         /\ lastApi.upstream.body.json => lastApi.body = lastApi.upstream.body.value
         /\ ~lastApi.upstream.body.json => lastApi.body = [raw |-> lastApi.upstream.body.text]
    /\ lastApi.upstream.fetch # "ok" =>
         /\ lastApi.status = 500
         /\ lastApi.body = [error |-> lastApi.upstream.message]
    /\ lastApi.status = 500 =>
         \/ lastApi.upstream.fetch # "ok"
         \/ lastApi.upstream.status = 500

\* the registry answered 404 with a page that is no JSON
C22_Witness ==
  /\ lastApi.route = "my-tokens"
  /\ lastApi.upstream.fetch = "ok"
  /\ lastApi.upstream.status = 404
  /\ ~lastApi.upstream.body.json
  /\ lastApi.status = 404
  /\ lastApi.body = [raw |-> "<html>Bad Gateway</html>"]

\* ------------------------------------------------------------------------
\* Properties of the chat turn and the deploy endpoint
\* ------------------------------------------------------------------------

\* a wallet address: 0x and 40 more characters
WellFormedWallet(w) == Truthy(w) /\ StartsWith(w, "0x") /\ Len(w) = 42

\* a content event of the response states that the signing key is missing
StatesMissingKey ==
  \E i \in 1..Len(res.events) :
    /\ ~res.events[i].done
    /\ Includes(res.events[i].content, "not configured")

\* C23 as stated: on the deploy endpoint a request without a usable key,
\* without a required field or with a malformed wallet is answered with a 4xx
\* status; on the chat endpoint a turn that fails for the missing key streams
\* a message that states it, and a deploy turn with a malformed wallet is told
\* so and nothing is dispatched
C23_ErrorsSurfaced ==
  /\ (route = "deploy" /\ pc = "done") =>
       ((\/ privateKey = "absent"
         \/ ~Truthy(req.name) \/ ~Truthy(req.symbol)
         \/ ~WellFormedWallet(req.tokenAdmin)) => res.status \in 400..499)
  /\ (route = "chat" /\ pc = "done" /\ res.status = 200) =>
       /\ (\/ (failure = "no_key" /\ privateKey = "absent")
           \/ (dispatch.called /\ privateKey = "absent")) => StatesMissingKey
       /\ dispatch.called => WellFormedWallet(dispatch.params.wallet)

\* the stored messages of a role
RowsOfRole(role) == {i \in 1..Len(chatMessages) : chatMessages[i].role = role}

\* C24 as stated: the turns accepted so far have stored at most one user
\* message and at most one assistant message each, and the first chat turn,
\* once it is over with no storage failure, has stored exactly one user message
C24_OneAssistantMessage ==
  /\ Cardinality(RowsOfRole("user")) <= turns
  /\ Cardinality(RowsOfRole("assistant")) <= turns
  /\ (route = "chat" /\ res.status = 200 /\ turns = 1 /\ pc = "done" /\ dbPending = {}
        /\ dbFailures = 0) => Cardinality(RowsOfRole("user")) = 1

\* the content chunks that reached the caller, in order
StreamedChunks ==
  LET chunks == SelectSeq(res.events, LAMBDA e : ~e.done)
  IN [i \in 1..Len(chunks) |-> chunks[i].content]

\* C25 as stated, for the first turn of a run: when the chat turn is over and
\* storage has not failed, every assistant message it stored is the
\* concatenation of the chunks it streamed
C25_StoredIsStreamed ==
  (route = "chat" /\ res.status = 200 /\ turns = 1 /\ pc = "done" /\ dbPending = {}
     /\ dbFailures = 0) =>
    \A i \in RowsOfRole("assistant") : chatMessages[i].content = Concat(StreamedChunks)

\* every event the handler wrote, those written after res.end() included
WrittenEvents == res.events \o res.late

\* C26 as stated: an accepted chat request writes one done event, sendDone
\* running once, and writes nothing after it: no event follows a done event,
\* and a response that has ended holds exactly one
C26_OneDoneEvent ==
  (route = "chat" /\ res.status = 200) =>
    /\ \A i \in 1..Len(WrittenEvents) : WrittenEvents[i].done => i = Len(WrittenEvents)
    /\ res.ended => \E i \in 1..Len(WrittenEvents) : WrittenEvents[i].done

\* the accepted chat turn is over: the handler has returned and every insert
\* it sent has been answered
ChatTurnOver == route = "chat" /\ res.status = 200 /\ pc = "done" /\ dbPending = {}

\* a non-empty content event was streamed before the done event
ContentBeforeDone ==
  \E i, j \in 1..Len(res.events) :
    /\ i < j
    /\ ~res.events[i].done /\ res.events[i].content # ""
    /\ res.events[j].done

\* C27 as stated: every accepted chat turn streams a non-empty content event
\* before its done event and, storage working, persists an assistant message
C27_AlwaysAnAnswer ==
  ChatTurnOver =>
    /\ ContentBeforeDone
    /\ (turns = 1 /\ dbFailures = 0) => RowsOfRole("assistant") # {}

\* the inference endpoint answered 200 and its stream carried no content delta
EmptyAnswer == failure = "none" /\ (step1 = 200 \/ step2 = 200) /\ fullContent = ""

\* C27 amended: every accepted chat turn streams a non-empty content event
\* before its done event and, storage working, persists an assistant message,
\* except when the inference endpoint answers 200 with a stream that carries no
\* content delta: that turn streams the done event alone and persists nothing
C27_AnswerUnlessEmptyStream ==
  ChatTurnOver =>
    IF EmptyAnswer
    THEN /\ res.events = <<DoneEvent>>
         /\ turns = 1 => RowsOfRole("assistant") = {}
    ELSE /\ ContentBeforeDone
         /\ (turns = 1 /\ dbFailures = 0) => RowsOfRole("assistant") # {}

\* a first turn ended on a 200 answer of the inference endpoint whose stream
\* carried no content
C27_Witness == ChatTurnOver /\ EmptyAnswer /\ turns = 1 /\ dbFailures = 0

\* C28: the SDK's deploy is never given the zero address as the platform's fee
\* recipient: whenever getViemClients returns clients, AGENT_WALLET_ADDRESS is
\* the address of the account of the configured key
C28_FeeRecipientIsAgent ==
  /\ getViemClients # NoClients =>
       /\ AGENT_WALLET_ADDRESS = getViemClients.account
       /\ AGENT_WALLET_ADDRESS # ZeroAddress
  /\ \A i \in 1..Len(sdkCalls) :
       LET platform == sdkCalls[i].recipients[2]
       IN /\ platform.recipient # ZeroAddress /\ platform.admin # ZeroAddress
          /\ platform.recipient = AgentAddress

\* the SDK's deploy has been called from a chat turn
C28_Witness ==
  /\ route = "chat" /\ Len(sdkCalls) = 1
  /\ sdkCalls[1].recipients[2].recipient = AgentAddress

\* ------------------------------------------------------------------------
\* Two chat turns in flight at once: the handler of POST /api/chat awaits the
\* database three times, and the statements of another request can be served
\* between any two of them
\* ------------------------------------------------------------------------

ConcurrentTurns == {1, 2}

\* message of each turn; the first turn is of session s1
TurnMessage(t) == IF t = 1 THEN "first" ELSE "second"

\* the answer the turn streamed, in fullContent when the relay returns
TurnAnswer(t) == "answer to " \o TurnMessage(t)

\* what session s1 holds when the turns arrive
PriorLens == {0, 17, 18}
PriorRows(n) ==
  [i \in 1..n |-> ChatRow("s1", IF i % 2 = 1 THEN "user" ELSE "assistant", "old " \o ToString(i))]

InitConcurrent ==
  /\ privateKey = "valid"
  /\ \E n \in PriorLens : chatMessages = PriorRows(n)
  /\ InitHandlers
  /\ \E s \in HistorySessions :
       call = [fn |-> "chat",
               sessionId |-> [t \in ConcurrentTurns |-> IF t = 1 THEN "s1" ELSE s],
               at |-> [t \in ConcurrentTurns |-> "start"],
               messages |-> [t \in ConcurrentTurns |-> <<>>]]

concurrentFrame == <<privateKey, tokenLaunches, dbPending, dbFailures, turns, prevOutcome, route,
                     pc, req, res, deployParams, fullContent, bodyStr, inference, step1,
                     paymentRequired, paymentHeader, step2, errCode, failure, dispatch, sdkCalls,
                     confirmations, trackedWallets, walletSeq, walletPending, lastApi, cleared>>

\* await storage.addChatMessage({sessionId, role: "user", content: message})
TurnStoreUser(t) ==
  /\ call.at[t] = "start"
  /\ chatMessages' = Append(chatMessages, ChatRow(call.sessionId[t], "user", TurnMessage(t)))
  /\ call' = [call EXCEPT !.at[t] = "stored"]
  /\ UNCHANGED concurrentFrame

\* const history = await storage.getChatHistory(sessionId); the window of it
\* is handed to callConwayAI
TurnLoadHistory(t) ==
  /\ call.at[t] = "stored"
  /\ call' = [call EXCEPT !.at[t] = "relayed",
                          !.messages[t] = ChatWindow(getChatHistory(call.sessionId[t]))]
  /\ UNCHANGED chatMessages
  /\ UNCHANGED concurrentFrame

\* if (fullContent) await storage.addChatMessage({..., role: "assistant", ...})
TurnStoreAssistant(t) ==
  /\ call.at[t] = "relayed"
  /\ chatMessages' = Append(chatMessages, ChatRow(call.sessionId[t], "assistant", TurnAnswer(t)))
  /\ call' = [call EXCEPT !.at[t] = "done"]
  /\ UNCHANGED concurrentFrame

NextConcurrent ==
  \/ \E t \in ConcurrentTurns : TurnStoreUser(t)
  \/ \E t \in ConcurrentTurns : TurnLoadHistory(t)
  \/ \E t \in ConcurrentTurns : TurnStoreAssistant(t)

SpecConcurrent == InitConcurrent /\ [][NextConcurrent]_vars

\* the conversation the turn forwarded
Forwarded(t) == call.messages[t]

\* C29 as stated: the conversation a turn forwards is the last 18 or fewer
\* stored messages of its session in creation order, and ends with the turn's
\* own user message, also when another turn of the session is in flight
C29_EndsWithOwnMessage ==
  /\ [](\A t \in ConcurrentTurns :
          call.at[t] \in {"relayed", "done"} =>
            /\ Len(Forwarded(t)) <= HistoryWindow
            /\ Forwarded(t)[Len(Forwarded(t))] = [role |-> "user", content |-> TurnMessage(t)])
  /\ [][\A t \in ConcurrentTurns :
          (call.at[t] = "stored" /\ call'.at[t] = "relayed") =>
            LET h == getChatHistory(call.sessionId[t])
                first == IF Len(h) <= HistoryWindow THEN 1 ELSE Len(h) - HistoryWindow + 1
            IN call'.messages[t] =
                 [i \in 1..(Len(h) - first + 1) |->
                    [role |-> h[first + i - 1].role, content |-> h[first + i - 1].content]]]_vars

\* ------------------------------------------------------------------------
\* Clearing a session while the three tables hold rows
\* ------------------------------------------------------------------------

\* rows of session s2 stored before the run
EarlierRows == <<ChatRow("s2", "user", "gm"), ChatRow("s2", "assistant", "Hi")>>

InitClear ==
  /\ privateKey = "absent"
  /\ chatMessages \in {<<>>, EarlierRows}
  /\ InitHandlers
  /\ call = NoCall

NextClear ==
  \/ \E s \in HistorySessions : ChatRequest("gm", s, Undefined)
  \/ StoreUserMessage(TRUE)
  \/ LoadHistory(TRUE)
  \/ StoreAssistant(TRUE)
  \/ StoreFallback(TRUE)
  \/ \E body \in LaunchBodies : LaunchRequest(body)
  \/ LaunchStore(TRUE)
  \/ AddWalletRequest([walletAddress |-> MixedCaseWallet, label |-> "mine"])
  \/ AddWalletStore([walletAddress |-> MixedCaseWallet, label |-> "mine"])
  \/ \E s \in HistorySessions, ok \in BOOLEAN : ClearHistory(s, ok)

SpecClear == InitClear /\ [][NextClear]_vars

\* C30: a clear of session s that succeeds removes every stored message of s
\* and leaves the messages of the other sessions, the tracked wallets and the
\* token launches as they were
C30_ClearsOnlyTheSession ==
  [][\A s \in HistorySessions :
       ClearHistory(s, TRUE) =>
         /\ getChatHistory(s)' = <<>>
         /\ \A o \in HistorySessions \ {s} : getChatHistory(o)' = getChatHistory(o)
         /\ trackedWallets' = trackedWallets
         /\ tokenLaunches' = tokenLaunches]_vars

\* the turn of s1 was stored, a launch and a wallet were recorded, and s1 was
\* cleared: s1 is empty, the rows of s2, the wallet and the launch remain
C30_Witness ==
  /\ route = "chat" /\ req.sessionId = "s1" /\ pc = "done" /\ dbPending = {} /\ dbFailures = 0
  /\ lastApi.route = "clear" /\ lastApi.status = 200 /\ lastApi.sessionId = "s1"
  /\ getChatHistory("s1") = <<>>
  /\ getChatHistory("s2") = EarlierRows
  /\ trackedWallets # <<>>
  /\ tokenLaunches # <<>>

====
